---- MODULE Spec2Model ----
(***************************************************************************)
(* Trigger lifecycle engine of src/extensionPoints/triggerExtension.ts:    *)
(* the Report Gate, the Firing Pipeline (_runTrigger, runExtension,        *)
(* _runTriggersAndNotify, notifyErrors) and the Trigger State Machine      *)
(* (run, uninstall, cancelObservers, the attach* routines and the          *)
(* Interval Runner).                                                       *)
(*                                                                         *)
(* The specifications share the variables:                                 *)
(*   FiringSpec, LoadSpec, ReArmSpec -- dispatch calls and the             *)
(*       asynchronous steps of the firings they start;                     *)
(*   Spec, IntervalSpec, EngineSpec, UnresolvedSpec, AppearSpec -- run(),  *)
(*       uninstall(), DOM changes, native events, observers and Interval   *)
(*       Runners;                                                          *)
(*   DebounceSpec, InstallSpec, ScheduleSpec -- the debounced dispatcher   *)
(*       and interval() against the clock;                                 *)
(*   InitializeSpec, TeardownSpec -- an initialize trigger whose calls go  *)
(*       through the debounced dispatcher;                                 *)
(*   ReportModeSpec -- the Report Gate for every kind and report mode.     *)
(***************************************************************************)
EXTENDS Integers, Sequences, FiniteSets, TLC

\* ---------------------------------------------------------------- bounds
MaxTasks == 2        \* per-root firings (_runTrigger calls) over all dispatch calls
MaxRuns == 2         \* run() calls in flight (suspended in getRoot) at once
MaxRunners == 2      \* Interval Runners that have not returned yet
MaxTime == 4          \* the clock stops here
MaxCalls == 3         \* calls of the debounced dispatcher
MaxTicks == 2         \* iterations of one interval() call
MaxObs == 2          \* observers of one kind connected at once
MaxInstalls == 2     \* install() calls on one instance
MaxGateCalls == 2    \* calls of one gate for one automation
MaxAppear == 2       \* dispatches of one IntersectionObserver for one element

\* ------------------------------------------------------------- constants
Null == "null"

\* The automations installed on the extension point (this.extensions).
Exts == {"x1", "x2"}

\* DOM nodes a firing can have as root.
Elems == {"e1", "e2"}
Document == "document"
Nodes == Elems \cup {Document}

VARIABLES
    cfg,              \* the definition (trigger, reportMode, ...) and, for
                      \* statechange, the state key the page changes
    extensions,       \* this.extensions
    reportedEvents,   \* this.reportedEvents
    reportedErrors,   \* this.reportedErrors
    gateLog,          \* history: the answers of each gate, per automation id
    disp,             \* the dispatch calls and their per-root firings
    dom,              \* the page: each element absent, matching the selector, or gone
    listeners,        \* boundEventHandler bindings per node, for the trigger's event
    installedEvents,  \* this.installedEvents
    handlers,         \* "abort" listeners of this.abortController.signal
    mutObs,           \* connected mutation observers (initialize)
    intObs,           \* connected IntersectionObservers and what they observe
    runs,             \* run() calls suspended in getRoot
    runners,          \* interval() calls that have not returned
    last,             \* history: what the latest step did
    now,              \* Date.now(), in periods of the timers' resolution
    deb,              \* the debounced dispatcher install() made, and its history
    iv                \* one interval() call against the clock

firingVars == <<extensions, reportedEvents, reportedErrors, gateLog, disp>>
timeVars == <<now, deb, iv>>
lifeVars == <<dom, listeners, installedEvents, handlers, mutObs, intObs, runs,
              runners, last, timeVars>>
vars == <<cfg, extensions, reportedEvents, reportedErrors, gateLog, disp,
          dom, listeners, installedEvents, handlers, mutObs, intObs, runs,
          runners, last, now, deb, iv>>

\* ------------------------------------------------------------ Report Gate

\* A bug: the gate of reportMode=once keeps answering true.
shouldReport_always(reportMode, alreadyReported) == TRUE

\* shouldReport(alreadyReported), with this.reportMode as a parameter.
shouldReport(reportMode, alreadyReported) ==
    CASE reportMode = "once" -> ~alreadyReported
      [] reportMode = "all" -> TRUE

\* get trigger(): the definition's trigger, `load` when it has none.
trigger == IF cfg.trigger = Null THEN "load" ELSE cfg.trigger

\* The Trigger type.
Triggers ==
    {"load", "interval", "appear", "initialize", "blur", "click", "dblclick",
     "mouseover", "keydown", "keyup", "keypress", "change", "selectionchange",
     "statechange", "custom"}

USER_ACTION_TRIGGERS == {"click", "dblclick", "blur", "mouseover"}

\* A bug: the keyboard events count as user actions too.
getDefaultReportModeForTrigger_keyboard(t) ==
    IF t \in USER_ACTION_TRIGGERS \cup {"keydown", "keyup", "keypress"}
    THEN "all" ELSE "once"

getDefaultReportModeForTrigger(t) ==
    IF t \in USER_ACTION_TRIGGERS THEN "all" ELSE "once"

\* get reportMode(): the definition's, else the default of the kind.
reportMode ==
    IF cfg.reportMode = Null THEN getDefaultReportModeForTrigger(trigger)
    ELSE cfg.reportMode

\* The answer of shouldReportError(extensionId); the caller adds the id.
shouldReportError(extensionId) ==
    shouldReport(reportMode, extensionId \in reportedErrors)

\* A bug: one set of reported ids for both gates.
shouldReportEvent_sharedSet(extensionId) ==
    shouldReport(reportMode,
                 extensionId \in reportedEvents \cup reportedErrors)

\* The answer of shouldReportEvent(extensionId); the caller adds the id.
shouldReportEvent(extensionId) ==
    shouldReport(reportMode, extensionId \in reportedEvents)

\* One call of a gate, as _runTrigger makes it for an automation whose
\* runExtension promise has settled: the answer, and the id is added.
reportGate(kind, extensionId) ==
    LET answer == IF kind = "error" THEN shouldReportError(extensionId)
                  ELSE shouldReportEvent(extensionId)
    IN  /\ Len(gateLog[kind][extensionId]) < MaxGateCalls
        /\ gateLog' = [gateLog EXCEPT ![kind][extensionId] = Append(@, answer)]
        /\ reportedErrors' = IF kind = "error"
                             THEN reportedErrors \cup {extensionId}
                             ELSE reportedErrors
        /\ reportedEvents' = IF kind = "event"
                             THEN reportedEvents \cup {extensionId}
                             ELSE reportedEvents
        /\ UNCHANGED <<cfg, extensions, disp, dom, listeners, installedEvents,
                       handlers, mutObs, intObs, runs, runners, last, now, deb, iv>>

\* --------------------------------------------------------- read context

\* The state key an automation is configured for (statechange eligibility).
StateKey == [x \in Exts |-> IF x = "x1" THEN "k1" ELSE "k2"]

\* makeShouldRunExtensionForStateChange(event): the automations it admits.
makeShouldRunExtensionForStateChange(event) ==
    {x \in Exts : StateKey[x] = event.detail}

\* stubTrue as a filter: every automation.
stubTrue == Exts

\* No native event (nativeEvent: null).
NoEvent == [type |-> "none", detail |-> Null]

\* pickEventProperties(nativeEvent): the serialisable projection.
pickEventProperties(nativeEvent) == nativeEvent.detail

\* What reader.read(root) returns when it succeeds: a record read from the
\* root; the ones of e2 and of the document have a key `event` of their own.
ReaderOutput(root) ==
    CASE root = "e1" -> [data |-> "e1"]
      [] root = "e2" -> [event |-> "fromReader", data |-> "e2"]
      [] OTHER -> [event |-> "fromReader", data |-> "document"]

\* Object spread {...a, ...b}: the keys of both, b's value on a collision.
Spread(a, b) ==
    [key \in (DOMAIN a) \cup (DOMAIN b) |->
        IF key \in DOMAIN b THEN b[key] ELSE a[key]]

\* A bug: the event projection spread last.
readerContext_eventLast(nativeEvent, readerOutput) ==
    Spread(readerOutput,
           [event |-> IF nativeEvent # NoEvent
                      THEN pickEventProperties(nativeEvent) ELSE Null])

\* const readerContext = {event: ..., ...(await reader.read(root))}
readerContext(nativeEvent, readerOutput) ==
    Spread([event |-> IF nativeEvent # NoEvent
                      THEN pickEventProperties(nativeEvent) ELSE Null],
           readerOutput)

\* ------------------------------------------------------- Firing Pipeline

\* A per-automation task of one firing (the async function mapped over
\* extensionsToRun) and what it did.
NoExtTask ==
    [pc |-> "none",            \* none | svc | done
     pipeline |-> "notrun",    \* reduceExtensionPipeline: notrun | ok | failed
     input |-> [event |-> Null],  \* the ctxt runExtension was called with
     promise |-> "pending",    \* runExtension's promise: pending | resolved | rejected
     gate |-> "none",          \* the gate consulted: none | error | event
     allowed |-> FALSE,        \* the gate's answer
     sink |-> "none",          \* telemetry call made: none | reportError | reportEvent
     returned |-> "pending"]   \* value of the task: pending | undefined | error

\* One _runTrigger call.
NoRootTask ==
    [pc |-> "none",            \* none | read | run | fulfilled | rejected
     toRun |-> {},             \* extensionsToRun
     reads |-> 0,              \* calls of reader.read
     ctx |-> [event |-> Null], \* readerContext
     ext |-> [x \in Exts |-> NoExtTask]]

\* One call of the dispatcher (_runTriggersAndNotify when not debounced).
NoDispatch ==
    [pc |-> "none",            \* none | running | done
     roots |-> {},
     nativeEvent |-> NoEvent,
     shouldRunExtension |-> stubTrue,   \* the filter the caller passed
     notifyCalls |-> 0,        \* calls of notify.error
     notifyCount |-> 0,        \* errors.length of that call
     notifySubject |-> "none", \* the wording of the message's subject
     notifyReportError |-> FALSE,  \* the reportError option of that call
     task |-> [r \in Nodes |-> NoRootTask]]

\* Dispatch calls are numbered in call order; each has at least one slot.
Calls == 1..MaxTasks

Dispatched == {d \in Calls : disp[d].pc # "none"}

\* What a call costs of the MaxTasks budget (an empty root list costs one).
Cost(roots) == IF roots = {} THEN 1 ELSE Cardinality(roots)

RECURSIVE TasksUpTo(_)
TasksUpTo(d) ==
    IF d = 0 THEN 0
    ELSE (IF d \in Dispatched THEN Cost(disp[d].roots) ELSE 0) + TasksUpTo(d - 1)

\* runExtension: makeServiceContext is awaited outside the try (line 398),
\* the pipeline inside it, and the catch of lines 409-411 only logs.
runExtension(serviceContext, pipeline) ==
    IF serviceContext = "failed" THEN "rejected" ELSE "resolved"

\* The options _runTriggersAndNotify hands to _runTrigger: `{ nativeEvent }`
\* (lines 514-517); _runTrigger defaults shouldRunExtension to stubTrue.
runTriggerOptions(options) ==
    [nativeEvent |-> options.nativeEvent, shouldRunExtension |-> stubTrue]

\* A bug: the reader is awaited also when no automation is to run.
runTriggerStart_noEarlyReturn(options) ==
    [NoRootTask EXCEPT !.pc = "read",
                       !.toRun = extensions \cap options.shouldRunExtension]

\* _runTrigger up to its first await: filter, early return or reader.
runTriggerStart(options) ==
    LET extensionsToRun == extensions \cap options.shouldRunExtension
    IN  IF extensionsToRun = {}
        THEN [NoRootTask EXCEPT !.pc = "fulfilled"]
        ELSE [NoRootTask EXCEPT !.pc = "read", !.toRun = extensionsToRun]

\* debouncedRunTriggersAndNotify(roots, options) with no debounce configured:
\* _runTriggersAndNotify starts one _runTrigger per root.
Dispatch(roots, options) ==
    LET d == Cardinality(Dispatched) + 1
    IN  /\ d \in Calls
        /\ TasksUpTo(MaxTasks) + Cost(roots) <= MaxTasks
        /\ disp' = [disp EXCEPT ![d] =
              [NoDispatch EXCEPT
                 !.pc = "running",
                 !.roots = roots,
                 !.nativeEvent = options.nativeEvent,
                 !.shouldRunExtension = options.shouldRunExtension,
                 !.task = [r \in Nodes |->
                     IF r \in roots
                     THEN runTriggerStart(runTriggerOptions(options))
                     ELSE NoRootTask]]]

\* The kinds whose firings come from the shared event handler.
EventKinds == {"statechange"}

\* The statechange events: of state key k1 (x1's), and of a key nobody has.
NativeEvents == [type : {"statechange"}, detail : {"k1", "k0"}]

\* eventHandler(event): the element is the event's target; the filter is
\* makeShouldRunExtensionForStateChange for statechange, stubTrue otherwise.
eventHandler(target, event) ==
    /\ cfg.trigger \in EventKinds
    /\ event.type = cfg.trigger
    /\ event.detail = cfg.changedKey
    /\ target = Document
    /\ Dispatch({target},
                [nativeEvent |-> event,
                 shouldRunExtension |->
                    IF cfg.trigger = "statechange"
                    THEN makeShouldRunExtensionForStateChange(event)
                    ELSE stubTrue])
    /\ UNCHANGED <<lifeVars, cfg, extensions, reportedEvents, reportedErrors, gateLog>>

\* A dispatch with no native event (load, interval, initialize, appear).
dispatchRoots(roots) ==
    /\ cfg.trigger \notin EventKinds
    /\ Dispatch(roots, [nativeEvent |-> NoEvent, shouldRunExtension |-> stubTrue])
    /\ UNCHANGED <<lifeVars, cfg, extensions, reportedEvents, reportedErrors, gateLog>>

\* _runTrigger lines 477-491: the reader is awaited, the read context is
\* built and every automation's task runs up to its first await.
readerRead(d, root, ok) ==
    LET t == disp[d].task[root]
    IN  /\ disp[d].pc = "running"
        /\ t.pc = "read"
        /\ disp' = [disp EXCEPT ![d].task[root] =
              IF ok
              THEN [t EXCEPT
                      !.pc = "run",
                      !.reads = t.reads + 1,
                      !.ctx = readerContext(disp[d].nativeEvent, ReaderOutput(root)),
                      !.ext = [x \in Exts |->
                          IF x \in t.toRun
                          THEN [NoExtTask EXCEPT
                                  !.pc = "svc",
                                  !.input = readerContext(disp[d].nativeEvent,
                                                          ReaderOutput(root))]
                          ELSE NoExtTask]]
              ELSE [t EXCEPT !.pc = "rejected", !.reads = t.reads + 1]]
        /\ UNCHANGED <<lifeVars, cfg, extensions, reportedEvents, reportedErrors, gateLog>>

\* A bug: the per-automation task has no try/catch, so the first rejection
\* rejects Promise.all while the sibling tasks are still in flight.
extSettled_failFast(d, root, x, task, promise) ==
    LET t == disp[d].task[root]
        others == {y \in t.toRun \ {x} : t.ext[y].pc # "done"}
        pc == IF promise = "rejected" THEN "rejected"
              ELSE IF others = {} THEN "fulfilled" ELSE "run"
        kind == IF promise = "rejected" THEN "error" ELSE "event"
        answer == IF promise = "rejected"
                  THEN shouldReportError(x) ELSE shouldReportEvent(x)
        done == [task EXCEPT
                   !.pc = "done",
                   !.promise = promise,
                   !.gate = IF promise = "rejected" THEN "none" ELSE kind,
                   !.allowed = promise # "rejected" /\ answer,
                   !.sink = IF promise # "rejected" /\ answer
                            THEN "reportEvent" ELSE "none",
                   !.returned = IF promise = "rejected" THEN "error" ELSE "undefined"]
    IN  /\ disp' = [disp EXCEPT ![d].task[root] =
                      [t EXCEPT !.pc = pc, !.ext[x] = done]]
        /\ reportedErrors' = reportedErrors
        /\ reportedEvents' =
              IF promise = "rejected" THEN reportedEvents ELSE reportedEvents \cup {x}
        /\ gateLog' = IF promise = "rejected" THEN gateLog
                      ELSE [gateLog EXCEPT ![kind][x] = Append(@, answer)]

\* The task of automation x once runExtension's promise has settled
\* (lines 490-502), Promise.all resolving with the last of them.
extSettled(d, root, x, task, promise) ==
    LET t == disp[d].task[root]
        others == {y \in t.toRun \ {x} : t.ext[y].pc # "done"}
        pc == IF others = {} THEN "fulfilled" ELSE "run"
        answer == IF promise = "rejected"
                  THEN shouldReportError(x) ELSE shouldReportEvent(x)
        kind == IF promise = "rejected" THEN "error" ELSE "event"
        done == [task EXCEPT
                   !.pc = "done",
                   !.promise = promise,
                   !.gate = kind,
                   !.allowed = answer,
                   !.sink = IF ~answer THEN "none"
                            ELSE IF promise = "rejected" THEN "reportError"
                            ELSE "reportEvent",
                   !.returned = IF promise = "rejected" THEN "error" ELSE "undefined"]
    IN  /\ disp' = [disp EXCEPT ![d].task[root] =
                      [t EXCEPT !.pc = pc, !.ext[x] = done]]
        /\ reportedErrors' =
              IF promise = "rejected" THEN reportedErrors \cup {x} ELSE reportedErrors
        /\ reportedEvents' =
              IF promise = "rejected" THEN reportedEvents ELSE reportedEvents \cup {x}
        /\ gateLog' = [gateLog EXCEPT ![kind][x] = Append(@, answer)]

\* runExtension settles for automation x: either makeServiceContext failed
\* (line 398), or it succeeded and reduceExtensionPipeline ran and settled
\* (lines 403-411). The two awaits touch no state of the instance between
\* them, so they are one step.
runExtensionSettles(d, root, x, serviceContext, pipeline) ==
    LET t == disp[d].task[root]
    IN  /\ disp[d].pc = "running"
        /\ t.pc = "run"
        /\ t.ext[x].pc = "svc"
        /\ serviceContext = "failed" => pipeline = "notrun"
        /\ serviceContext = "ok" => pipeline # "notrun"
        /\ extSettled(d, root, x, [t.ext[x] EXCEPT !.pipeline = pipeline],
                      runExtension(serviceContext, pipeline))
        /\ UNCHANGED <<lifeVars, cfg, extensions>>

\* The errors one settled _runTrigger contributes to flatMap (lines 520-524):
\* the compacted task values when fulfilled, the one reason when rejected.
rootErrors(root, t) ==
    IF t.pc = "rejected" THEN {<<root, "reader">>}
    ELSE {<<root, x>> : x \in {y \in t.toRun : t.ext[y].returned = "error"}}

flattenedErrors(d) ==
    UNION {rootErrors(r, disp[d].task[r]) : r \in disp[d].roots}

\* pluralize(count, singular, plural): the singular for one, else the plural
\* template, in which $$ stands for the count.
pluralize(count, singular, plural) == IF count = 1 THEN singular ELSE plural

\* A bug: one notification per error.
notifyErrors_perError(n) ==
    [calls |-> n, count |-> n, reportError |-> FALSE,
     subject |-> IF n = 0 THEN "none" ELSE "a trigger"]

\* notifyErrors(errors): nothing for an empty list, else one notify.error
\* with reportError: false.
notifyErrors(n) ==
    IF n = 0
    THEN [calls |-> 0, count |-> 0, subject |-> "none", reportError |-> FALSE]
    ELSE [calls |-> 1, count |-> n,
          subject |-> pluralize(n, "a trigger", "$$ triggers"),
          reportError |-> FALSE]

\* A bug: Promise.all in place of Promise.allSettled, which rejects with the
\* first rejection while the sibling firings are still running.
allSettled_failFast(d) ==
    /\ disp[d].pc = "running"
    /\ \/ \A r \in disp[d].roots : disp[d].task[r].pc = "fulfilled"
       \/ \E r \in disp[d].roots : disp[d].task[r].pc = "rejected"
    /\ LET errors == IF \E r \in disp[d].roots : disp[d].task[r].pc = "rejected"
                     THEN 1 ELSE Cardinality(flattenedErrors(d))
           n == notifyErrors(errors)
       IN disp' = [disp EXCEPT ![d].pc = "done",
                               ![d].notifyCalls = n.calls,
                               ![d].notifyCount = n.count,
                               ![d].notifySubject = n.subject,
                               ![d].notifyReportError = n.reportError]
    /\ UNCHANGED <<lifeVars, cfg, extensions, reportedEvents, reportedErrors, gateLog>>

\* _runTriggersAndNotify after `await Promise.allSettled` (lines 519-526).
allSettled(d) ==
    /\ disp[d].pc = "running"
    /\ \A r \in disp[d].roots : disp[d].task[r].pc \in {"fulfilled", "rejected"}
    /\ LET n == notifyErrors(Cardinality(flattenedErrors(d)))
       IN disp' = [disp EXCEPT ![d].pc = "done",
                               ![d].notifyCalls = n.calls,
                               ![d].notifyCount = n.count,
                               ![d].notifySubject = n.subject,
                               ![d].notifyReportError = n.reportError]
    /\ UNCHANGED <<lifeVars, cfg, extensions, reportedEvents, reportedErrors, gateLog>>

\* --------------------------------------------------- Debounced Dispatcher

\* this.debounceOptions: null, or {waitMillis, leading, trailing}.
NoDebounceOptions ==
    [configured |-> FALSE, waitMillis |-> 0, leading |-> FALSE, trailing |-> TRUE]

DebounceOptions ==
    [configured : {TRUE}, waitMillis : {1, 2}, leading : BOOLEAN, trailing : BOOLEAN]

debounceOptions == deb.options

\* The arguments of one call of the dispatcher.
NoArgs ==
    [set |-> FALSE, roots |-> {},
     options |-> [nativeEvent |-> NoEvent, shouldRunExtension |-> stubTrue]]

Args(roots, options) == [set |-> TRUE, roots |-> roots, options |-> options]

\* The debounced function's closure: timerId is the time its timer is due
\* (-1 when there is none), lastCallTime is -1 before the first call. `calls`
\* and `invoked` are the history of the calls made and of the calls of
\* _runTriggersAndNotify they led to (`upto`: the number of calls made then).
\* `installs` counts the install() calls, each of which sets the field to a
\* new function; `replaced` are the timers of the functions install() has
\* replaced, which their closures keep.
NoDebounce ==
    [options |-> NoDebounceOptions,
     timerId |-> -1,
     lastCallTime |-> -1,
     lastArgs |-> NoArgs,
     calls |-> <<>>,
     invoked |-> <<>>,
     installs |-> 1,
     replaced |-> <<>>]

\* A bug: the debounce options are ignored.
install_undebounced == "boundRun"

\* install(): what this.debouncedRunTriggersAndNotify is set to.
install ==
    IF debounceOptions.configured THEN "debounce" ELSE "boundRun"

\* debounce(func, wait, options) of lodash, with no maxWait: shouldInvoke.
shouldInvoke(time) ==
    \/ deb.lastCallTime = -1
    \/ time - deb.lastCallTime >= debounceOptions.waitMillis

\* func.apply(thisArg, lastArgs): _runTriggersAndNotify is called.
invokeFunc(d, args) ==
    /\ Dispatch(args.roots, args.options)
    /\ deb' = [d EXCEPT !.lastArgs = NoArgs,
                        !.invoked = Append(@, [t |-> now, upto |-> Len(d.calls)])]

\* this.debouncedRunTriggersAndNotify(roots, options).
debouncedRunTriggersAndNotify(roots, options) ==
    LET args == Args(roots, options)
        called == [deb EXCEPT !.calls = Append(@, [t |-> now, args |-> args])]
        noted == [called EXCEPT !.lastArgs = args, !.lastCallTime = now]
        timed == [noted EXCEPT !.timerId = now + debounceOptions.waitMillis]
    IN  /\ Len(deb.calls) < MaxCalls
        /\ deb.installs >= 1
        /\ IF install = "boundRun" THEN invokeFunc(called, args)
           ELSE IF shouldInvoke(now) /\ deb.timerId = -1
                THEN \* leadingEdge
                     IF debounceOptions.leading THEN invokeFunc(timed, args)
                     ELSE deb' = timed /\ UNCHANGED disp
           ELSE /\ deb' = (IF deb.timerId = -1 THEN timed ELSE noted)
                /\ UNCHANGED disp
        /\ UNCHANGED <<cfg, extensions, reportedEvents, reportedErrors, gateLog,
                       dom, listeners, installedEvents, handlers, mutObs, intObs,
                       runs, runners, last, now, iv>>

\* timerExpired of the debounced function: the trailing edge when the wait
\* has passed since the last call, else the timer is set for the rest.
timerExpired ==
    /\ deb.timerId # -1
    /\ now >= deb.timerId
    /\ IF shouldInvoke(now)
       THEN IF debounceOptions.trailing /\ deb.lastArgs.set
            THEN invokeFunc([deb EXCEPT !.timerId = -1], deb.lastArgs)
            ELSE /\ deb' = [deb EXCEPT !.timerId = -1, !.lastArgs = NoArgs]
                 /\ UNCHANGED disp
       ELSE /\ deb' = [deb EXCEPT !.timerId =
                          deb.lastCallTime + debounceOptions.waitMillis]
            /\ UNCHANGED disp
    /\ UNCHANGED <<cfg, extensions, reportedEvents, reportedErrors, gateLog,
                   dom, listeners, installedEvents, handlers, mutObs, intObs,
                   runs, runners, last, now, iv>>

\* The sequence s without its i-th element.
Without(s, i) == SubSeq(s, 1, i - 1) \o SubSeq(s, i + 1, Len(s))

\* install() as a step of the instance: this.debouncedRunTriggersAndNotify is
\* set to a new function (a new debounce closure when debounce is
\* configured); the function it replaces keeps its timer and last arguments.
Install ==
    /\ deb.installs < MaxInstalls
    /\ deb' = [deb EXCEPT
                 !.installs = @ + 1,
                 !.timerId = -1,
                 !.lastCallTime = -1,
                 !.lastArgs = NoArgs,
                 !.replaced = IF deb.timerId = -1 THEN @
                              ELSE Append(@, [timerId |-> deb.timerId,
                                              lastArgs |-> deb.lastArgs])]
    /\ UNCHANGED <<cfg, firingVars, dom, listeners, installedEvents, handlers,
                   mutObs, intObs, runs, runners, last, now, iv>>

\* timerExpired of a replaced function: nothing calls it any more, so the
\* wait has passed since its last call and this is its trailing edge.
replacedTimerExpired(i) ==
    LET o == deb.replaced[i]
        gone == [deb EXCEPT !.replaced = Without(@, i)]
    IN  /\ i \in 1..Len(deb.replaced)
        /\ now >= o.timerId
        /\ IF debounceOptions.trailing /\ o.lastArgs.set
           THEN /\ Dispatch(o.lastArgs.roots, o.lastArgs.options)
                /\ deb' = [gone EXCEPT !.invoked =
                             Append(@, [t |-> now, upto |-> Len(deb.calls)])]
           ELSE deb' = gone /\ UNCHANGED disp
        /\ UNCHANGED <<cfg, extensions, reportedEvents, reportedErrors, gateLog,
                       dom, listeners, installedEvents, handlers, mutObs, intObs,
                       runs, runners, last, now, iv>>

\* ------------------------------------------------- Trigger State Machine


\* The elements $safeFind(this.triggerSelector) returns now.
Matching == {e \in Elems : dom[e] = "matching"}

NoRun == [pc |-> "none", promise |-> "none"]
NoRunner == [pc |-> "none", aborted |-> FALSE, promise |-> "none"]
Idle == [fired |-> <<>>, threw |-> FALSE]

\* The instance right after construction, on a page with no matching element.
LifeIdle ==
    /\ dom = [e \in Elems |-> "absent"]
    /\ listeners = [n \in Nodes |-> 0]
    /\ installedEvents = {}
    /\ handlers = {}
    /\ mutObs = {}
    /\ intObs = {}
    /\ runs = [i \in 1..MaxRuns |-> NoRun]
    /\ runners = [i \in 1..MaxRunners |-> NoRunner]
    /\ last = Idle

\* The instance's state as a record, which the routines below transform.
Inst ==
    [listeners |-> listeners, installedEvents |-> installedEvents,
     handlers |-> handlers, mutObs |-> mutObs, intObs |-> intObs,
     runs |-> runs, runners |-> runners,
     fired |-> <<>>,     \* the dispatch calls of this step, as root lists
     threw |-> FALSE,    \* the routine threw
     full |-> FALSE]     \* the model has no free slot for a new observer/runner

\* The step's outcome; `last` keeps what the step dispatched and whether the
\* routine threw.
CommitLife(st) ==
    /\ ~st.full
    /\ listeners' = st.listeners
    /\ installedEvents' = st.installedEvents
    /\ handlers' = st.handlers
    /\ mutObs' = st.mutObs
    /\ intObs' = st.intObs
    /\ runs' = st.runs
    /\ runners' = st.runners
    /\ last' = [fired |-> st.fired, threw |-> st.threw]

\* The same, in a step that leaves the clock and the dispatcher alone.
Commit(st) ==
    /\ CommitLife(st)
    /\ UNCHANGED timeVars

Handler(kind, id) == [kind |-> kind, id |-> id]

\* The least free slot of a pool, 0 when there is none.
FreeSlot(used, max) ==
    IF \E i \in 1..max : i \notin used
    THEN CHOOSE i \in 1..max : i \notin used /\ \A j \in 1..(i - 1) : j \in used
    ELSE 0

\* A bug: the old controller is not aborted, only replaced.
cancelObservers_noAbort(st) == [st EXCEPT !.handlers = {}]

\* cancelObservers(): abort() runs every "abort" listener of the signal and
\* marks it aborted for the runners started with it; then a new controller.
cancelObservers(st) ==
    LET ids(kind) == {h.id : h \in {g \in st.handlers : g.kind = kind}}
    IN  [st EXCEPT
           !.runs = [i \in 1..MaxRuns |->
               IF i \in ids("cancelRunWait") /\ @[i].promise = "pending"
               THEN [@[i] EXCEPT !.promise = "cancelled"] ELSE @[i]],
           !.runners = [i \in 1..MaxRunners |->
               IF @[i].pc = "none" THEN @[i]
               ELSE [@[i] EXCEPT
                       !.aborted = TRUE,
                       !.promise = IF i \in ids("cancelRunnerWait")
                                      /\ @ = "pending"
                                   THEN "cancelled" ELSE @]],
           !.mutObs = {o \in @ : o.id \notin ids("disconnectMutation")},
           !.intObs = {o \in @ : o.id \notin ids("disconnectIntersection")},
           !.listeners = IF ids("documentOff") # {}
                         THEN [@ EXCEPT ![Document] = 0] ELSE @,
           !.handlers = {}]

\* addCancelHandler(callback): addEventListener keeps one entry per callback.
addCancelHandler(st, callback) ==
    [st EXCEPT !.handlers = @ \cup {callback}]

\* The dispatcher called with a root list (no debounce configured).
dispatch(st, roots) == [st EXCEPT !.fired = Append(@, roots)]

\* The elements' position in the document.
Position(e) == IF e = "e1" THEN 1 ELSE 2

\* One dispatch per element, in document order.
RECURSIVE dispatchEach(_, _)
dispatchEach(st, elements) ==
    IF elements = {} THEN st
    ELSE LET e == CHOOSE x \in elements :
                     \A y \in elements : Position(x) <= Position(y)
         IN dispatchEach(dispatch(st, {e}), elements \ {e})

\* getRoot up to `await rootPromise`: awaitElementOnce resolves at once when
\* an element matches (its cancel is then noop), else it waits.
getRootPromise ==
    IF ~cfg.selector THEN "resolved"
    ELSE IF Matching = {} THEN "pending" ELSE "resolved"

\* A bug: the elements found once are kept, also those that match no more.
getRoot_keepsRemoved(promise) ==
    IF promise = "cancelled" THEN [defined |-> FALSE, nodes |-> {}]
    ELSE [defined |-> TRUE,
          nodes |-> IF ~cfg.selector THEN {Document}
                    ELSE {e \in Elems : dom[e] # "absent"}]

\* What getRoot returns: undefined after PromiseCancelled, else the document
\* or the elements matching now.
Undefined == [defined |-> FALSE, nodes |-> {}]
getRoot(promise) ==
    IF promise = "cancelled" THEN Undefined
    ELSE [defined |-> TRUE,
          nodes |-> IF ~cfg.selector THEN {Document} ELSE Matching]

\* A bug: the handler is bound without removing the earlier binding.
off_skipped(st, nodes) == st

\* $element.off(event, this.boundEventHandler): removes every binding.
off(st, nodes) ==
    [st EXCEPT !.listeners = [n \in Nodes |-> IF n \in nodes THEN 0 ELSE @[n]]]

\* $element.on(event, this.boundEventHandler): adds one binding.
on(st, nodes) ==
    [st EXCEPT !.listeners = [n \in Nodes |-> IF n \in nodes THEN @[n] + 1 ELSE @[n]]]

Throw(st) == [st EXCEPT !.threw = TRUE]

\* The native event name attachDOMTrigger binds (lines 700-703).
domTrigger ==
    IF trigger = "custom"
    THEN (IF cfg.customEvent THEN "customEvent" ELSE Null)
    ELSE trigger

\* attachDOMTrigger($element, {watch: false}), also the watcher's callback.
attachDOMTriggerOnce(st, root) ==
    IF domTrigger = Null THEN Throw(st)
    ELSE IF ~root.defined THEN Throw(st)
    ELSE [on(off(st, root.nodes), root.nodes) EXCEPT
             !.installedEvents = @ \cup {domTrigger}]

\* initialize(selector, callback, {target: document}) of attachDOMTrigger:
\* the callback runs for the elements matching now, and the observer stays.
watchDOMTrigger(st) ==
    LET id == FreeSlot({o.id : o \in st.mutObs}, MaxObs)
        bound == attachDOMTriggerOnce(st, [defined |-> TRUE, nodes |-> Matching])
    IN  IF id = 0 THEN [st EXCEPT !.full = TRUE]
        ELSE addCancelHandler(
               [bound EXCEPT !.mutObs = @ \cup {[id |-> id, appear |-> 0]}],
               Handler("disconnectMutation", id))

\* attachDOMTrigger($element, {watch}).
attachDOMTrigger(st, root, watch) ==
    LET bound == attachDOMTriggerOnce(st, root)
    IN  IF bound.threw \/ ~watch THEN bound
        ELSE IF Document \in root.nodes THEN bound
        ELSE watchDOMTrigger(cancelObservers(bound))

\* attachDocumentTrigger().
attachDocumentTrigger(st) ==
    addCancelHandler(
        [on(off(st, {Document}), {Document}) EXCEPT
            !.installedEvents = @ \cup {trigger}],
        Handler("documentOff", 0))

\* A bug: the document is accepted as a root.
assertElementThrows_never(root) == ~root.defined

\* assertElement($root) throws for the document (and on undefined).
assertElementThrows(root) == ~root.defined \/ Document \in root.nodes

\* A bug: the runner is started whatever the period is.
attachInterval_anyPeriod(st) ==
    LET st1 == cancelObservers(st)
        r == FreeSlot({i \in 1..MaxRunners : st1.runners[i].pc # "none"}, MaxRunners)
    IN  IF r = 0 THEN [st1 EXCEPT !.full = TRUE]
        ELSE [st1 EXCEPT !.runners[r] =
                 [pc |-> "sleep", aborted |-> FALSE, promise |-> "none"]]

\* attachInterval(): cancelObservers, then interval() is started with the
\* new signal; it sleeps one period first.
attachInterval(st) ==
    LET st1 == cancelObservers(st)
        r == FreeSlot({i \in 1..MaxRunners : st1.runners[i].pc # "none"}, MaxRunners)
    IN  IF cfg.intervalMillis > 0
        THEN IF r = 0 THEN [st1 EXCEPT !.full = TRUE]
             ELSE [st1 EXCEPT !.runners[r] =
                      [pc |-> "sleep", aborted |-> FALSE, promise |-> "none"]]
        ELSE st1

\* attachInitializeTrigger($element).
attachInitializeTrigger(st, root) ==
    LET st1 == cancelObservers(st)
        id == FreeSlot({o.id : o \in st1.mutObs}, MaxObs)
    IN  IF cfg.attachMode = "once"
        THEN IF root.defined THEN dispatch(st1, root.nodes) ELSE Throw(st1)
        ELSE IF id = 0 THEN [st1 EXCEPT !.full = TRUE]
        ELSE addCancelHandler(
               [dispatchEach(st1, Matching) EXCEPT
                   !.mutObs = @ \cup {[id |-> id, appear |-> 0]}],
               Handler("disconnectMutation", id))

\* attachAppearTrigger($element). An observer's `intersecting` are the
\* observed elements its latest entries report as intersecting, and
\* `appeared` counts, per element, the dispatches it made with the element
\* among the roots.
attachAppearTrigger(st, root) ==
    LET st1 == cancelObservers(st)
        a == FreeSlot({o.id : o \in st1.intObs}, MaxObs)
        m == FreeSlot({o.id : o \in st1.mutObs}, MaxObs)
        observing == [st1 EXCEPT !.intObs = @ \cup
                        {[id |-> a,
                          observed |-> root.nodes \cup
                             (IF cfg.attachMode = "watch" THEN Matching ELSE {}),
                          intersecting |-> {},
                          appeared |-> [e \in Elems |-> 0]]}]
        watching == IF cfg.attachMode = "watch"
                    THEN addCancelHandler(
                           [observing EXCEPT !.mutObs = @ \cup {[id |-> m, appear |-> a]}],
                           Handler("disconnectMutation", m))
                    ELSE observing
    IN  IF a = 0 \/ (cfg.attachMode = "watch" /\ m = 0)
        THEN [st1 EXCEPT !.full = TRUE]
        ELSE addCancelHandler(watching, Handler("disconnectIntersection", a))

\* run() after `await this.getRoot()`: the switch on this.trigger.
runSwitch(st, root) ==
    CASE trigger = "load" ->
            IF root.defined THEN dispatch(st, root.nodes) ELSE Throw(st)
      [] trigger = "interval" -> attachInterval(st)
      [] trigger = "initialize" -> attachInitializeTrigger(st, root)
      [] trigger = "appear" ->
            IF assertElementThrows(root) THEN Throw(st)
            ELSE attachAppearTrigger(st, root)
      [] trigger \in {"selectionchange", "statechange"} -> attachDocumentTrigger(st)
      [] trigger = "custom" -> attachDOMTrigger(st, root, FALSE)
      [] OTHER ->
            IF assertElementThrows(root) THEN Throw(st)
            ELSE attachDOMTrigger(st, root, cfg.attachMode = "watch")

\* run() up to the await of getRoot: cancelObservers, then getRoot registers
\* the wait's cancel on the new signal.
Run ==
    LET s == FreeSlot({i \in 1..MaxRuns : runs[i].pc # "none"}, MaxRuns)
        st1 == cancelObservers(Inst)
        promise == getRootPromise
        st2 == addCancelHandler(st1,
                  IF promise = "pending" THEN Handler("cancelRunWait", s)
                  ELSE Handler("noop", 0))
    IN  /\ s # 0
        /\ Commit([st2 EXCEPT !.runs[s] = [pc |-> "await", promise |-> promise]])
        /\ UNCHANGED <<cfg, firingVars, dom>>

\* run() resumes once the wait has settled.
RunResume(s) ==
    /\ runs[s].pc = "await"
    /\ runs[s].promise \in {"resolved", "cancelled"}
    /\ Commit(runSwitch([Inst EXCEPT !.runs[s] = NoRun], getRoot(runs[s].promise)))
    /\ UNCHANGED <<cfg, firingVars, dom>>

\* run() resumes in an instance with no debounce configured: what it hands
\* to the dispatcher (one call at most, in the load case) starts
\* _runTriggersAndNotify.  run() awaits that promise, which never rejects
\* (allSettled, then notifyErrors), so run() has nothing left to do but
\* return when the dispatch is done.
RunResumeFires(s) ==
    /\ runs[s].pc = "await"
    /\ runs[s].promise \in {"resolved", "cancelled"}
    /\ Commit(runSwitch([Inst EXCEPT !.runs[s] = NoRun], getRoot(runs[s].promise)))
    /\ Len(last'.fired) <= 1
    /\ IF last'.fired = <<>> THEN UNCHANGED disp
       ELSE Dispatch(last'.fired[1],
                     [nativeEvent |-> NoEvent, shouldRunExtension |-> stubTrue])
    /\ UNCHANGED <<cfg, extensions, reportedEvents, reportedErrors, gateLog, dom>>

\* A bug: removeExtensions() tears the observers down.
removeExtensions_cancels(st) == cancelObservers(st)

\* removeExtensions(): a NOP.
removeExtensions(st) == st

RemoveExtensions ==
    /\ Commit(removeExtensions(Inst))
    /\ UNCHANGED <<cfg, firingVars, dom>>

\* A bug: uninstall() forgets which automations were reported.
Uninstall_forgetsReported ==
    LET st1 == cancelObservers(Inst)
        st2 == IF cfg.selector /\ Matching # {}
               THEN [(IF st1.installedEvents # {} THEN off(st1, Matching) ELSE st1)
                       EXCEPT !.installedEvents = {}]
               ELSE st1
    IN  /\ Commit(st2)
        /\ reportedEvents' = {}
        /\ reportedErrors' = {}
        /\ UNCHANGED <<cfg, extensions, gateLog, disp, dom>>

\* uninstall().
Uninstall ==
    LET st1 == cancelObservers(Inst)
        st2 == IF cfg.selector /\ Matching # {}
               THEN [(IF st1.installedEvents # {} THEN off(st1, Matching) ELSE st1)
                       EXCEPT !.installedEvents = {}]
               ELSE st1
    IN  /\ Commit(st2)
        /\ UNCHANGED <<cfg, firingVars, dom>>

\* A bug: the watcher's callback binds every matching element again, and
\* does not remove the earlier bindings.
observerCallback_bindAll(st, o, e) ==
    CASE trigger = "initialize" -> dispatch(st, {e})
      [] trigger = "appear" ->
            [st EXCEPT !.intObs = {IF i.id = o.appear
                                   THEN [i EXCEPT !.observed = @ \cup {e}]
                                   ELSE i : i \in @}]
      [] OTHER -> IF domTrigger = Null THEN Throw(st)
                  ELSE [on(st, Matching \cup {e}) EXCEPT
                           !.installedEvents = @ \cup {domTrigger}]

\* The callback of one connected mutation observer for a new element.
observerCallback(st, o, e) ==
    CASE trigger = "initialize" -> dispatch(st, {e})
      [] trigger = "appear" ->
            [st EXCEPT !.intObs = {IF i.id = o.appear
                                   THEN [i EXCEPT !.observed = @ \cup {e}]
                                   ELSE i : i \in @}]
      [] OTHER -> attachDOMTriggerOnce(st, [defined |-> TRUE, nodes |-> {e}])

RECURSIVE observerCallbacks(_, _, _)
observerCallbacks(st, obs, e) ==
    IF obs = {} THEN st
    ELSE LET o == CHOOSE x \in obs : \A y \in obs : x.id <= y.id
         IN observerCallbacks(observerCallback(st, o, e), obs \ {o}, e)

\* The page's layout: e1 is a child of the body, and the place of e2 is
\* inside e1. An event bubbles from its target through the ancestors.
Ancestors(node) ==
    CASE node = "e2" -> {"e1", Document}
      [] node = "e1" -> {Document}
      [] OTHER -> {}

\* The page inserts an element matching the selector: pending selector waits
\* resolve and the connected mutation observers call back.
Insert(e) ==
    LET resolved(p) == IF p = "pending" THEN "resolved" ELSE p
        st1 == [Inst EXCEPT
                  !.runs = [i \in 1..MaxRuns |->
                              [@[i] EXCEPT !.promise = resolved(@)]],
                  !.runners = [i \in 1..MaxRunners |->
                              [@[i] EXCEPT !.promise = resolved(@)]]]
    IN  /\ cfg.selector
        /\ dom[e] = "absent"
        /\ \A a \in Ancestors(e) \ {Document} : dom[a] # "absent"
        /\ dom' = [dom EXCEPT ![e] = "matching"]
        /\ Commit(observerCallbacks(st1, mutObs, e))
        /\ UNCHANGED <<cfg, firingVars>>

\* The page changes an element so that it matches the selector no more.
Unmatch(e) ==
    /\ dom[e] = "matching"
    /\ dom' = [dom EXCEPT ![e] = "gone"]
    /\ Commit(Inst)
    /\ UNCHANGED <<cfg, firingVars>>

\* The debounced function called once, as a function of its closure:
\* debouncedRunTriggersAndNotify(roots, options) with `invoked` as the record
\* of the calls of _runTriggersAndNotify.
debounced(db, args) ==
    LET called == [db EXCEPT !.calls = Append(@, [t |-> now, args |-> args])]
        noted == [called EXCEPT !.lastArgs = args, !.lastCallTime = now]
        timed == [noted EXCEPT !.timerId = now + debounceOptions.waitMillis]
        invoking(d) ==
            [d EXCEPT !.lastArgs = NoArgs,
                      !.invoked = Append(@, [t |-> now, upto |-> Len(d.calls)])]
        isInvoking == \/ db.lastCallTime = -1
                      \/ now - db.lastCallTime >= debounceOptions.waitMillis
    IN  IF install = "boundRun" THEN invoking(called)
        ELSE IF isInvoking /\ db.timerId = -1
             THEN IF debounceOptions.leading THEN invoking(timed) ELSE timed
        ELSE IF db.timerId = -1 THEN timed ELSE noted

\* The dispatcher calls one step of the instance makes, in their order.
RECURSIVE debouncedEach(_, _)
debouncedEach(db, fired) ==
    IF fired = <<>> THEN db
    ELSE debouncedEach(
            debounced(db, Args(Head(fired),
                               [nativeEvent |-> NoEvent,
                                shouldRunExtension |-> stubTrue])),
            Tail(fired))

\* run() resumes in an instance whose dispatcher install() made: the calls
\* the attach routine makes go through the debounced function.
RunResumeDebounced(s) ==
    /\ runs[s].pc = "await"
    /\ runs[s].promise \in {"resolved", "cancelled"}
    /\ CommitLife(runSwitch([Inst EXCEPT !.runs[s] = NoRun], getRoot(runs[s].promise)))
    /\ Len(deb.calls) + Len(last'.fired) <= MaxCalls
    /\ deb' = debouncedEach(deb, last'.fired)
    /\ UNCHANGED <<cfg, firingVars, dom, now, iv>>

\* The page inserts an element matching the selector, in such an instance.
InsertDebounced(e) ==
    LET resolved(p) == IF p = "pending" THEN "resolved" ELSE p
        st1 == [Inst EXCEPT
                  !.runs = [i \in 1..MaxRuns |->
                              [@[i] EXCEPT !.promise = resolved(@)]],
                  !.runners = [i \in 1..MaxRunners |->
                              [@[i] EXCEPT !.promise = resolved(@)]]]
    IN  /\ cfg.selector
        /\ dom[e] = "absent"
        /\ \A a \in Ancestors(e) \ {Document} : dom[a] # "absent"
        /\ dom' = [dom EXCEPT ![e] = "matching"]
        /\ CommitLife(observerCallbacks(st1, mutObs, e))
        /\ Len(deb.calls) + Len(last'.fired) <= MaxCalls
        /\ deb' = debouncedEach(deb, last'.fired)
        /\ UNCHANGED <<cfg, firingVars, now, iv>>

\* timerExpired of the debounced function, with `invoked` as the record of
\* the trailing edge's call of _runTriggersAndNotify.
debouncedTimerExpired ==
    /\ deb.timerId # -1
    /\ now >= deb.timerId
    /\ deb' = IF shouldInvoke(now)
              THEN IF debounceOptions.trailing /\ deb.lastArgs.set
                   THEN [deb EXCEPT
                           !.timerId = -1,
                           !.lastArgs = NoArgs,
                           !.invoked = Append(@, [t |-> now, upto |-> Len(deb.calls)])]
                   ELSE [deb EXCEPT !.timerId = -1, !.lastArgs = NoArgs]
              ELSE [deb EXCEPT !.timerId =
                        deb.lastCallTime + debounceOptions.waitMillis]
    /\ UNCHANGED <<cfg, firingVars, dom, listeners, installedEvents, handlers,
                   mutObs, intObs, runs, runners, last, now, iv>>

\* The kinds that bind boundEventHandler.
ListenerKinds == {"click", "custom", "selectionchange", "statechange"}

\* A native event of the trigger's event name on a node: every binding on
\* the node, and on the ancestors it bubbles to, calls eventHandler, which
\* dispatches the event's target.
RECURSIVE dispatchTimes(_, _, _)
dispatchTimes(st, roots, n) ==
    IF n = 0 THEN st ELSE dispatchTimes(dispatch(st, roots), roots, n - 1)

RECURSIVE Bindings(_)
Bindings(nodes) ==
    IF nodes = {} THEN 0
    ELSE LET n == CHOOSE x \in nodes : TRUE
         IN listeners[n] + Bindings(nodes \ {n})

NativeEvent(node) ==
    /\ trigger \in ListenerKinds
    /\ node \in Elems => dom[node] # "absent"
    /\ Commit(dispatchTimes(Inst, {node}, Bindings({node} \cup Ancestors(node))))
    /\ UNCHANGED <<cfg, firingVars, dom>>

\* A connected IntersectionObserver calls back; `visible` are the entries
\* that intersect.
IntersectionCallback(o, visible) ==
    /\ o \in intObs
    /\ visible \subseteq o.observed
    /\ Commit(dispatch(Inst, visible))
    /\ UNCHANGED <<cfg, firingVars, dom>>

\* The intersection of the elements `changed` with the viewport crosses the
\* threshold, each way: the observer calls back with one entry per element,
\* and the callback hands the intersecting ones to the dispatcher.
IntersectionChange(o, changed) ==
    LET intersecting == (o.intersecting \ changed) \cup (changed \ o.intersecting)
        roots == changed \cap intersecting
        seen == [o EXCEPT
                   !.intersecting = intersecting,
                   !.appeared = [e \in Elems |->
                                    IF e \in roots THEN @[e] + 1 ELSE @[e]]]
    IN  /\ o \in intObs
        /\ changed # {}
        /\ changed \subseteq o.observed
        /\ \A e \in roots : o.appeared[e] < MaxAppear
        /\ Commit(dispatch([Inst EXCEPT !.intObs = (@ \ {o}) \cup {seen}], roots))
        /\ UNCHANGED <<cfg, firingVars, dom>>

\* ------------------------------------------------------- Interval Runner

\* intervalEffect up to the await of getRoot.
intervalEffectStart(st, r) ==
    LET promise == getRootPromise
    IN  addCancelHandler(
          [st EXCEPT !.runners[r].pc = "root", !.runners[r].promise = promise],
          IF promise = "pending" THEN Handler("cancelRunnerWait", r)
          ELSE Handler("noop", 0))

\* A sleep of interval() ends: the loop test, then the tick begins.
IntervalWake(r) ==
    /\ runners[r].pc = "sleep"
    /\ Commit(IF runners[r].aborted THEN [Inst EXCEPT !.runners[r] = NoRunner]
              ELSE IF ~cfg.allowBackground
                   THEN [Inst EXCEPT !.runners[r].pc = "raf"]
                   ELSE intervalEffectStart(Inst, r))
    /\ UNCHANGED <<cfg, firingVars, dom>>

\* The animation frame arrives: effectGenerator() is called.
IntervalFrame(r) ==
    /\ runners[r].pc = "raf"
    /\ Commit(intervalEffectStart(Inst, r))
    /\ UNCHANGED <<cfg, firingVars, dom>>

\* intervalEffect resumes with the root and dispatches; spreading undefined
\* throws, which interval() catches. Then the runner sleeps.
IntervalRoot(r) ==
    LET root == getRoot(runners[r].promise)
        st == [Inst EXCEPT !.runners[r].pc = "sleep", !.runners[r].promise = "none"]
    IN  /\ runners[r].pc = "root"
        /\ runners[r].promise \in {"resolved", "cancelled"}
        /\ Commit(IF root.defined THEN dispatch(st, root.nodes) ELSE st)
        /\ UNCHANGED <<cfg, firingVars, dom>>

\* ----------------------------------------- interval() against the clock

\* One iteration of interval()'s loop: `start` is its Date.now(), `effect`
\* the time effectGenerator() was called and `end` the time its promise
\* settled (-1 before), `slept` the sleepDuration computed after it.
NoTick == [start |-> 0, effect |-> -1, end |-> -1, outcome |-> "none", slept |-> -1]

\* One call of interval({intervalMillis, effectGenerator, signal,
\* requestAnimationFrame}): `called` is the time of the call, `wake` the time
\* the sleep in progress ends, `abortedAt` the number of iterations begun
\* when the signal was aborted (-1 while it is not).
NoInterval ==
    [pc |-> "none",            \* none | sleep | raf | effect | done
     intervalMillis |-> 0,
     requestAnimationFrame |-> FALSE,
     aborted |-> FALSE,
     abortedAt |-> -1,
     called |-> 0,
     wake |-> 0,
     ticks |-> <<>>,
     threw |-> FALSE]

TimeIdle ==
    /\ now = 0
    /\ deb = NoDebounce
    /\ iv = NoInterval

\* The clock advances; a sleep ends at the time it is due.
Tick ==
    /\ now < MaxTime
    /\ iv.pc = "sleep" => now < iv.wake
    /\ now' = now + 1
    /\ UNCHANGED <<cfg, firingVars, dom, listeners, installedEvents, handlers,
                   mutObs, intObs, runs, runners, last, deb, iv>>

\* A bug: the sleep after an effect is a full period.
sleepDuration_fullPeriod(intervalMillis, elapsed) == intervalMillis

\* Math.max(0, intervalMillis - (Date.now() - start)).
sleepDuration(intervalMillis, elapsed) ==
    IF intervalMillis - elapsed > 0 THEN intervalMillis - elapsed ELSE 0

\* `while (!signal.aborted)` and the iteration up to its first await: the
\* animation frame is requested, or effectGenerator() is called.
loopTest(v) ==
    IF v.aborted THEN [v EXCEPT !.pc = "done"]
    ELSE [v EXCEPT
            !.pc = IF v.requestAnimationFrame THEN "raf" ELSE "effect",
            !.ticks = Append(@, [NoTick EXCEPT
                         !.start = now,
                         !.effect = IF v.requestAnimationFrame THEN -1 ELSE now])]

\* The room the model has for the step loopTest takes.
CanLoop(v) == v.aborted \/ Len(v.ticks) < MaxTicks

\* The part of the state interval() does not touch.
IntervalFrameVars ==
    <<cfg, firingVars, dom, listeners, installedEvents, handlers, mutObs,
      intObs, runs, runners, last, now, deb>>

\* A bug: the first iteration begins at the call (a leading fire).
intervalCalled_leading(v) == loopTest([v EXCEPT !.called = now])

\* interval() up to `await sleep(intervalMillis)` (line 176).
intervalCalled(v) ==
    [v EXCEPT !.pc = "sleep", !.called = now, !.wake = now + v.intervalMillis]

intervalCall ==
    /\ iv.pc = "none"
    /\ iv' = intervalCalled(iv)
    /\ UNCHANGED IntervalFrameVars

\* The owner aborts the signal.
signalAbort ==
    /\ iv.pc \notin {"none", "done"}
    /\ ~iv.aborted
    /\ iv' = [iv EXCEPT !.aborted = TRUE, !.abortedAt = Len(iv.ticks)]
    /\ UNCHANGED IntervalFrameVars

\* A sleep of interval() ends.
sleepEnds ==
    /\ iv.pc = "sleep"
    /\ now = iv.wake
    /\ CanLoop(iv)
    /\ iv' = loopTest(iv)
    /\ UNCHANGED IntervalFrameVars

\* The animation frame arrives and effectGenerator() is called.
frameArrives ==
    /\ iv.pc = "raf"
    /\ iv' = [iv EXCEPT !.pc = "effect", !.ticks[Len(iv.ticks)].effect = now]
    /\ UNCHANGED IntervalFrameVars

\* A bug: no try/catch around the effect.
afterEffect_noCatch(v, outcome) ==
    IF outcome = "rejected" THEN [v EXCEPT !.pc = "done", !.threw = TRUE]
    ELSE loopTest(v)

\* Lines 191-201 once the effect has settled: the catch is a NOP, then the
\* sleep for the rest of the period, or straight on to the loop test.
afterEffect(v, outcome) ==
    LET n == Len(v.ticks)
        d == sleepDuration(v.intervalMillis, now - v.ticks[n].start)
        u == [v EXCEPT !.ticks[n].slept = d]
    IN  IF d > 0 THEN [u EXCEPT !.pc = "sleep", !.wake = now + d]
        ELSE loopTest(u)

\* The promise of effectGenerator() settles.
effectSettles(outcome) ==
    LET n == Len(iv.ticks)
        v == [iv EXCEPT !.ticks[n].end = now, !.ticks[n].outcome = outcome]
        w == afterEffect(v, outcome)
    IN  /\ iv.pc = "effect"
        /\ w.pc \in {"raf", "effect"} => Len(iv.ticks) < MaxTicks
        /\ iv' = w
        /\ UNCHANGED IntervalFrameVars

\* ------------------------------------------------------- specifications

TriggerKinds == {"load", "interval", "initialize", "appear", "click",
                 "selectionchange", "statechange", "custom"}

\* The definitions a page can install: fields that a kind does not read keep
\* their defaults.
Definitions ==
    {c \in [trigger : TriggerKinds,
            reportMode : {"once"},
            changedKey : {Null},
            attachMode : {"once", "watch"},
            selector : BOOLEAN,
            customEvent : BOOLEAN,
            intervalMillis : {0, 1},
            allowBackground : BOOLEAN] :
        /\ c.trigger # "custom" => c.customEvent
        /\ c.trigger # "interval" => (c.intervalMillis = 0 /\ ~c.allowBackground)
        /\ c.attachMode = "watch" =>
              (c.selector /\ c.trigger \in {"initialize", "appear", "click", "custom"})}

\* An instance of any kind but interval.
Init ==
    /\ cfg \in {c \in Definitions : c.trigger # "interval"}
    /\ extensions = Exts
    /\ reportedEvents = {}
    /\ reportedErrors = {}
    /\ gateLog = [kind \in {"error", "event"} |-> [x \in Exts |-> <<>>]]
    /\ disp = [d \in Calls |-> NoDispatch]
    /\ LifeIdle
    /\ TimeIdle

Next ==
    \/ Run
    \/ \E s \in 1..MaxRuns : RunResume(s)
    \/ Uninstall
    \/ \E e \in Elems : Insert(e)
    \/ \E e \in Elems : Unmatch(e)
    \/ \E node \in Nodes : NativeEvent(node)
    \/ \E o \in intObs, visible \in SUBSET Elems : IntersectionCallback(o, visible)

Spec == Init /\ [][Next]_vars

\* An instance of kind interval.
IntervalInit ==
    /\ cfg \in {c \in Definitions : c.trigger = "interval"}
    /\ extensions = Exts
    /\ reportedEvents = {}
    /\ reportedErrors = {}
    /\ gateLog = [kind \in {"error", "event"} |-> [x \in Exts |-> <<>>]]
    /\ disp = [d \in Calls |-> NoDispatch]
    /\ LifeIdle
    /\ TimeIdle

IntervalNext ==
    \/ Run
    \/ \E s \in 1..MaxRuns : RunResume(s)
    \/ Uninstall
    \/ \E e \in Elems : Insert(e)
    \/ \E e \in Elems : Unmatch(e)
    \/ \E r \in 1..MaxRunners : IntervalWake(r)
    \/ \E r \in 1..MaxRunners : IntervalFrame(r)
    \/ \E r \in 1..MaxRunners : IntervalRoot(r)

IntervalSpec == IntervalInit /\ [][IntervalNext]_vars

\* The root lists a dispatch without native event is called with.
RootChoices == {{}, {Document}, Elems}

FiringInit ==
    /\ cfg \in [trigger : {"load", "statechange"},
                reportMode : {"once", "all"},
                changedKey : {Null, "k1", "k0"},
                attachMode : {"once"},
                selector : {FALSE},
                customEvent : {FALSE},
                intervalMillis : {0},
                allowBackground : {FALSE}]
    /\ (cfg.changedKey = Null) = (cfg.trigger = "load")
    /\ extensions \in {Exts, {}}
    /\ reportedEvents = {}
    /\ reportedErrors = {}
    /\ gateLog = [kind \in {"error", "event"} |-> [x \in Exts |-> <<>>]]
    /\ disp = [d \in Calls |-> NoDispatch]
    /\ LifeIdle
    /\ TimeIdle

FiringNext ==
    \/ \E target \in Nodes, event \in NativeEvents : eventHandler(target, event)
    \/ \E roots \in RootChoices : dispatchRoots(roots)
    \/ \E d \in Calls, root \in Nodes, ok \in BOOLEAN :
          readerRead(d, root, ok)
    \/ \E d \in Calls, root \in Nodes, x \in Exts,
          serviceContext \in {"ok", "failed"},
          pipeline \in {"notrun", "ok", "failed"} :
             runExtensionSettles(d, root, x, serviceContext, pipeline)
    \/ \E d \in Calls : allSettled(d)

FiringSpec == FiringInit /\ [][FiringNext]_vars

\* The Interval Runner of an interval instance under the scheduling the event
\* loop gives: a due continuation of a run() or of a runner is run.
IntervalFairSpec ==
    /\ IntervalSpec
    /\ \A s \in 1..MaxRuns : WF_vars(RunResume(s))
    /\ \A r \in 1..MaxRunners :
          WF_vars(IntervalWake(r)) /\ WF_vars(IntervalFrame(r))
             /\ WF_vars(IntervalRoot(r))

\* The definitions in which no kind resolves to a native event name: kind
\* custom with no customEvent, and no trigger at all.
UnresolvedDefinitions ==
    {c \in Definitions : c.trigger = "custom" /\ ~c.customEvent}
       \cup {[c EXCEPT !.trigger = Null] : c \in {d \in Definitions : d.trigger = "load"}}

\* An instance of such a definition.
UnresolvedInit ==
    /\ cfg \in UnresolvedDefinitions
    /\ extensions = Exts
    /\ reportedEvents = {}
    /\ reportedErrors = {}
    /\ gateLog = [kind \in {"error", "event"} |-> [x \in Exts |-> <<>>]]
    /\ disp = [d \in Calls |-> NoDispatch]
    /\ LifeIdle
    /\ TimeIdle

UnresolvedNext ==
    \/ Run
    \/ \E s \in 1..MaxRuns : RunResume(s)
    \/ Uninstall
    \/ \E e \in Elems : Insert(e)
    \/ \E e \in Elems : Unmatch(e)
    \/ \E node \in Nodes : NativeEvent(node)

UnresolvedSpec == UnresolvedInit /\ [][UnresolvedNext]_vars

\* An instance with a load trigger and no selector, from run() to the
\* notification.
LoadInit ==
    /\ cfg \in {c \in Definitions : c.trigger = "load" /\ ~c.selector}
    /\ extensions \in {X \in SUBSET Exts : Cardinality(X) <= 1}
    /\ reportedEvents = {}
    /\ reportedErrors = {}
    /\ gateLog = [kind \in {"error", "event"} |-> [x \in Exts |-> <<>>]]
    /\ disp = [d \in Calls |-> NoDispatch]
    /\ LifeIdle
    /\ TimeIdle

LoadNext ==
    \/ Run
    \/ \E s \in 1..MaxRuns : RunResumeFires(s)
    \/ \E d \in Calls, root \in Nodes, ok \in BOOLEAN :
          readerRead(d, root, ok)
    \/ \E d \in Calls, root \in Nodes, x \in Exts,
          serviceContext \in {"ok", "failed"},
          pipeline \in {"notrun", "ok", "failed"} :
             runExtensionSettles(d, root, x, serviceContext, pipeline)
    \/ \E d \in Calls : allSettled(d)

LoadSpec == LoadInit /\ [][LoadNext]_vars

\* An instance with a load trigger and its dispatcher, against the clock.
DebounceInit ==
    /\ cfg = [trigger |-> "load", reportMode |-> "once", changedKey |-> Null,
              attachMode |-> "once", selector |-> TRUE, customEvent |-> TRUE,
              intervalMillis |-> 0, allowBackground |-> FALSE]
    /\ extensions = Exts
    /\ reportedEvents = {}
    /\ reportedErrors = {}
    /\ gateLog = [kind \in {"error", "event"} |-> [x \in Exts |-> <<>>]]
    /\ disp = [d \in Calls |-> NoDispatch]
    /\ LifeIdle
    /\ now = 0
    /\ iv = NoInterval
    /\ \E o \in DebounceOptions \cup {NoDebounceOptions} :
          deb = [NoDebounce EXCEPT !.options = o]

DebounceNext ==
    \/ \E roots \in {{"e1"}, {"e2"}, {Document}} :
          debouncedRunTriggersAndNotify(roots,
              [nativeEvent |-> NoEvent, shouldRunExtension |-> stubTrue])
    \/ timerExpired
    \/ Tick

DebounceSpec == DebounceInit /\ [][DebounceNext]_vars

\* An instance with a load trigger and no selector that is re-armed and
\* uninstalled while its firings report through the gates.
ReArmInit ==
    /\ \E c \in Definitions, mode \in {"once", "all"} :
          /\ c.trigger = "load" /\ ~c.selector
          /\ cfg = [c EXCEPT !.reportMode = mode]
    /\ extensions = {"x1"}
    /\ reportedEvents = {}
    /\ reportedErrors = {}
    /\ gateLog = [kind \in {"error", "event"} |-> [x \in Exts |-> <<>>]]
    /\ disp = [d \in Calls |-> NoDispatch]
    /\ LifeIdle
    /\ TimeIdle

ReArmNext ==
    \/ Run
    \/ \E s \in 1..MaxRuns : RunResumeFires(s)
    \/ Uninstall
    \/ RemoveExtensions
    \/ \E d \in Calls, root \in Nodes, ok \in BOOLEAN :
          readerRead(d, root, ok)
    \/ \E d \in Calls, root \in Nodes, x \in Exts,
          serviceContext \in {"ok", "failed"},
          pipeline \in {"notrun", "ok", "failed"} :
             runExtensionSettles(d, root, x, serviceContext, pipeline)
    \/ \E d \in Calls : allSettled(d)

ReArmSpec == ReArmInit /\ [][ReArmNext]_vars

\* An instance of any kind (the interval kind on the whole document), with
\* removeExtensions() among its operations.
EngineInit == Init \/ (IntervalInit /\ ~cfg.selector)

EngineNext == Next \/ IntervalNext \/ RemoveExtensions

EngineSpec == EngineInit /\ [][EngineNext]_vars

\* The gates of an instance of any kind, with reportMode configured or not.
ReportModeInit ==
    /\ cfg \in [trigger : Triggers \cup {Null},
                reportMode : {Null, "once", "all"},
                changedKey : {Null},
                attachMode : {"once"},
                selector : {TRUE},
                customEvent : {TRUE},
                intervalMillis : {1},
                allowBackground : {FALSE}]
    /\ extensions = Exts
    /\ reportedEvents = {}
    /\ reportedErrors = {}
    /\ gateLog = [kind \in {"error", "event"} |-> [x \in Exts |-> <<>>]]
    /\ disp = [d \in Calls |-> NoDispatch]
    /\ LifeIdle
    /\ TimeIdle

ReportModeNext ==
    \E kind \in {"error", "event"}, x \in Exts : reportGate(kind, x)

ReportModeSpec == ReportModeInit /\ [][ReportModeNext]_vars

\* An instance with debounce configured, from before its first install().
InstallInit ==
    /\ cfg = [trigger |-> "load", reportMode |-> "once", changedKey |-> Null,
              attachMode |-> "once", selector |-> TRUE, customEvent |-> TRUE,
              intervalMillis |-> 0, allowBackground |-> FALSE]
    /\ extensions = Exts
    /\ reportedEvents = {}
    /\ reportedErrors = {}
    /\ gateLog = [kind \in {"error", "event"} |-> [x \in Exts |-> <<>>]]
    /\ disp = [d \in Calls |-> NoDispatch]
    /\ LifeIdle
    /\ now = 0
    /\ iv = NoInterval
    /\ \E o \in DebounceOptions :
          deb = [NoDebounce EXCEPT !.options = o, !.installs = 0]

InstallNext ==
    \/ Install
    \/ \E roots \in {{"e1"}, {Document}} :
          debouncedRunTriggersAndNotify(roots,
              [nativeEvent |-> NoEvent, shouldRunExtension |-> stubTrue])
    \/ timerExpired
    \/ \E i \in 1..MaxInstalls : replacedTimerExpired(i)
    \/ Tick

InstallSpec == InstallInit /\ [][InstallNext]_vars

\* One interval() call against the clock, its effect being any promise.
ScheduleInit ==
    /\ \E c \in Definitions, p \in 1..2 :
          /\ c.trigger = "interval" /\ ~c.selector
          /\ cfg = [c EXCEPT !.intervalMillis = p]
    /\ extensions = Exts
    /\ reportedEvents = {}
    /\ reportedErrors = {}
    /\ gateLog = [kind \in {"error", "event"} |-> [x \in Exts |-> <<>>]]
    /\ disp = [d \in Calls |-> NoDispatch]
    /\ LifeIdle
    /\ now = 0
    /\ deb = NoDebounce
    /\ iv = [NoInterval EXCEPT !.intervalMillis = cfg.intervalMillis,
                               !.requestAnimationFrame = ~cfg.allowBackground]

ScheduleNext ==
    \/ intervalCall
    \/ signalAbort
    \/ sleepEnds
    \/ frameArrives
    \/ \E outcome \in {"resolved", "rejected"} : effectSettles(outcome)
    \/ Tick

ScheduleSpec == ScheduleInit /\ [][ScheduleNext]_vars

\* run() has not been called on the instance.
NeverArmed ==
    /\ \A s \in 1..MaxRuns : runs[s].pc = "none"
    /\ handlers = {}
    /\ mutObs = {}
    /\ deb.calls = <<>>

\* An instance of kind initialize, with or without debounce, that is armed
\* once while the page inserts elements.
InitializeInit ==
    /\ cfg \in {c \in Definitions : c.trigger = "initialize"}
    /\ extensions = Exts
    /\ reportedEvents = {}
    /\ reportedErrors = {}
    /\ gateLog = [kind \in {"error", "event"} |-> [x \in Exts |-> <<>>]]
    /\ disp = [d \in Calls |-> NoDispatch]
    /\ LifeIdle
    /\ now = 0
    /\ iv = NoInterval
    /\ \E o \in DebounceOptions \cup {NoDebounceOptions} :
          deb = [NoDebounce EXCEPT !.options = o]

InitializeNext ==
    \/ (NeverArmed /\ Run)
    \/ \E s \in 1..MaxRuns : RunResumeDebounced(s)
    \/ \E e \in Elems : InsertDebounced(e)
    \/ debouncedTimerExpired
    \/ Tick

InitializeSpec == InitializeInit /\ [][InitializeNext]_vars

\* An instance of kind appear on a page whose elements come into view and
\* leave it.
AppearInit ==
    /\ cfg \in {c \in Definitions : c.trigger = "appear"}
    /\ extensions = Exts
    /\ reportedEvents = {}
    /\ reportedErrors = {}
    /\ gateLog = [kind \in {"error", "event"} |-> [x \in Exts |-> <<>>]]
    /\ disp = [d \in Calls |-> NoDispatch]
    /\ LifeIdle
    /\ TimeIdle

AppearNext ==
    \/ Run
    \/ \E s \in 1..MaxRuns : RunResume(s)
    \/ Uninstall
    \/ \E e \in Elems : Insert(e)
    \/ \E e \in Elems : Unmatch(e)
    \/ \E o \in intObs, changed \in SUBSET Elems : IntersectionChange(o, changed)

AppearSpec == AppearInit /\ [][AppearNext]_vars

\* The same instance, re-armed and uninstalled at any time.
TeardownNext ==
    \/ Run
    \/ \E s \in 1..MaxRuns : RunResumeDebounced(s)
    \/ \E e \in Elems : InsertDebounced(e)
    \/ Uninstall
    \/ debouncedTimerExpired
    \/ Tick

TeardownSpec == InitializeInit /\ [][TeardownNext]_vars

\* =================================================== claims, FiringSpec

\* The per-automation tasks that have settled, as <<call, root, automation>>.
DoneTasks ==
    {t \in Calls \X Nodes \X Exts :
        /\ t[2] \in disp[t[1]].roots
        /\ disp[t[1]].task[t[2]].ext[t[3]].pc = "done"}

ExtTaskOf(t) == disp[t[1]].task[t[2]].ext[t[3]]

\* The per-root firings whose reader has been read successfully.
ReadTasks ==
    {t \in Calls \X Nodes :
        /\ t[2] \in disp[t[1]].roots
        /\ disp[t[1]].task[t[2]].pc \in {"run", "fulfilled"}
        /\ disp[t[1]].task[t[2]].toRun # {}}

\* C1: for every automation id and each kind (success, error) separately,
\* under reportMode=once the gate answers true at exactly the first call for
\* the id and false at every later call, whichever firings make the calls;
\* under reportMode=all it answers true at every call.
C1_ReportGate ==
    \A kind \in {"error", "event"}, x \in Exts :
        \A i \in 1..Len(gateLog[kind][x]) :
            gateLog[kind][x][i] = (cfg.reportMode = "all" \/ i = 1)

\* Two firings in flight at once have both asked the error gate about x1,
\* under reportMode=once.
C1_Witness ==
    /\ cfg.reportMode = "once"
    /\ Len(gateLog["error"]["x1"]) >= 2
    /\ \E d1, d2 \in Calls :
          /\ d1 # d2
          /\ disp[d1].pc = "running"
          /\ disp[d2].pc = "running"
          /\ \E r1 \in disp[d1].roots, r2 \in disp[d2].roots :
                /\ disp[d1].task[r1].ext["x1"].gate = "error"
                /\ disp[d2].task[r2].ext["x1"].gate = "error"

\* C7: in a firing with two eligible automations where the action pipeline of
\* one fails and that of the other succeeds, the failure list of the firing
\* holds exactly the one failure, and exactly one notification is shown,
\* naming 1 failing trigger.
C7_OneFailureOneNotification ==
    \A d \in Calls, r \in Nodes :
        LET t == disp[d].task[r]
        IN  (/\ disp[d].pc = "done"
             /\ disp[d].roots = {r}
             /\ t.pc = "fulfilled"
             /\ t.toRun = Exts
             /\ \E x, y \in Exts :
                   t.ext[x].pipeline = "failed" /\ t.ext[y].pipeline = "ok")
            => /\ Cardinality(rootErrors(r, t)) = 1
               /\ disp[d].notifyCalls = 1
               /\ disp[d].notifyCount = 1

\* C8: per automation run, a success event is emitted only if the pipeline
\* executor succeeded and the success gate allows it; if the pipeline executor
\* failed, the error gate is the one consulted, the error is forwarded to the
\* error collector exactly when that gate allows it, and no success event is
\* emitted.
C8_TelemetryFollowsOutcome ==
    \A t \in DoneTasks :
        LET e == ExtTaskOf(t)
        IN  /\ e.sink = "reportEvent" =>
                (e.pipeline = "ok" /\ e.gate = "event" /\ e.allowed)
            /\ e.pipeline = "failed" =>
                /\ e.gate = "error"
                /\ (e.sink = "reportError") = e.allowed
                /\ e.sink # "reportEvent"

\* C9: for a statechange trigger, an event runs the pipeline only of the
\* automations whose state key matches the event; a non-matching automation
\* gets no pipeline invocation, and when no automation matches the context
\* reader is not read.
C9_OnlyMatchingAutomationsRun ==
    \A d \in Dispatched : \A r \in disp[d].roots :
        LET t == disp[d].task[r]
            matching == extensions \cap
                          makeShouldRunExtensionForStateChange(disp[d].nativeEvent)
        IN  cfg.trigger = "statechange" =>
              /\ \A x \in Exts :
                    t.ext[x].pipeline # "notrun" => x \in matching
              /\ matching = {} => t.reads = 0

\* The `event` value the native event of a call projects to.
EventProjection(d) ==
    IF disp[d].nativeEvent # NoEvent
    THEN pickEventProperties(disp[d].nativeEvent) ELSE Null

\* C10 as stated: on a key present in both the native-event projection and
\* the reader's record (the key `event`), the read context has the value of
\* the native-event projection.
C10_EventProjectionWins ==
    \A t \in ReadTasks :
        (disp[t[1]].nativeEvent # NoEvent /\ "event" \in DOMAIN ReaderOutput(t[2]))
            => disp[t[1]].task[t[2]].ctx["event"] = EventProjection(t[1])

\* C10, amended: the read context has the keys of the projection and of the
\* reader's record; every key of the reader's record has the reader's value,
\* also the key `event`; the projection's value is the one in the read
\* context only when the reader's record has no key `event`.
C10_ReaderWins ==
    \A t \in ReadTasks :
        LET ctx == disp[t[1]].task[t[2]].ctx
            rec == ReaderOutput(t[2])
        IN  /\ DOMAIN ctx = {"event"} \cup DOMAIN rec
            /\ \A key \in DOMAIN rec : ctx[key] = rec[key]
            /\ "event" \notin DOMAIN rec => ctx["event"] = EventProjection(t[1])

\* A firing with a native event whose reader record has a key `event` of its
\* own has built its read context.
C10_Witness ==
    \E t \in ReadTasks :
        /\ disp[t[1]].nativeEvent # NoEvent
        /\ "event" \in DOMAIN ReaderOutput(t[2])
        /\ disp[t[1]].task[t[2]].ctx["event"] = "fromReader"

\* C11: each dispatch call calls notify.error at most once: exactly once, with
\* the number of flattened failures as its count and the singular wording
\* for one, when the flattened failures of all its roots are non-empty, and
\* not at all when there are none.
C11_OneNotificationPerDispatch ==
    \A d \in Calls :
        disp[d].pc = "done" =>
            LET n == Cardinality(flattenedErrors(d))
            IN  /\ disp[d].notifyCalls = (IF n = 0 THEN 0 ELSE 1)
                /\ disp[d].notifyCount = n
                /\ disp[d].notifySubject =
                      (CASE n = 0 -> "none"
                         [] n = 1 -> "a trigger"
                         [] OTHER -> "$$ triggers")

\* A dispatch over two roots in which three or more automation runs and
\* reader reads failed has shown its one notification.
C11_Witness ==
    \E d \in Calls :
        /\ disp[d].pc = "done"
        /\ disp[d].roots = Elems
        /\ Cardinality(flattenedErrors(d)) >= 3
        /\ disp[d].notifyCalls = 1

\* C12: whenever the context reader fails for a root, the reader's error is
\* handed to the error telemetry sink, whatever reportMode and the
\* reported-id sets are: the dispatch's notification reports it.
C12_ReaderErrorReported ==
    \A d \in Calls :
        (disp[d].pc = "done"
            /\ \E r \in disp[d].roots : disp[d].task[r].pc = "rejected")
        => disp[d].notifyReportError

\* C13: in a dispatch over several roots a reader failure for one root
\* rejects that root's firing only: no automation runs for that root, every
\* sibling firing has run each of its automations to the end when the
\* dispatch completes, and the reader failure is one failure of the one
\* notification, next to the siblings' automation failures.
C13_ReaderFailureIsPerRoot ==
    \A d \in Calls : \A r \in disp[d].roots :
        disp[d].task[r].pc = "rejected" =>
            /\ \A x \in Exts : disp[d].task[r].ext[x] = NoExtTask
            /\ disp[d].pc = "done" =>
                  /\ \A q \in disp[d].roots \ {r} :
                        \/ disp[d].task[q].pc = "rejected"
                        \/ /\ disp[d].task[q].pc = "fulfilled"
                           /\ \A x \in disp[d].task[q].toRun :
                                 disp[d].task[q].ext[x].pc = "done"
                  /\ disp[d].notifyCalls = 1
                  /\ disp[d].notifyCount =
                        Cardinality({q \in disp[d].roots :
                                        disp[d].task[q].pc = "rejected"})
                        + Cardinality({t \in DoneTasks :
                                        t[1] = d /\ ExtTaskOf(t).returned = "error"})

\* The reader failed for e1 while an automation of e2 failed: the dispatch
\* completed with one notification counting both.
C13_Witness ==
    \E d \in Calls :
        /\ disp[d].pc = "done"
        /\ disp[d].roots = Elems
        /\ disp[d].task["e1"].pc = "rejected"
        /\ disp[d].task["e2"].pc = "fulfilled"
        /\ disp[d].task["e2"].ext["x1"].returned = "error"
        /\ disp[d].notifyCalls = 1
        /\ disp[d].notifyCount = 2

\* C25: the two gates keep independent sets: a decision of the error gate
\* leaves reportedEvents as it was and a decision of the success gate leaves
\* reportedErrors as it was; so under reportMode=once the first decision of
\* each gate for an automation is to report, whatever the other gate has
\* recorded for it.
C25_GatesAreIndependent ==
    [][/\ \A x \in Exts :
            /\ gateLog'["error"][x] # gateLog["error"][x] =>
                  reportedEvents' = reportedEvents
            /\ gateLog'["event"][x] # gateLog["event"][x] =>
                  reportedErrors' = reportedErrors
       /\ \A kind \in {"error", "event"}, x \in Exts :
            gateLog'[kind][x] # <<>> => gateLog'[kind][x][1]
      ]_vars

\* Under reportMode=once automation x1 had its error reported first and then
\* its success.
C25_Witness ==
    /\ cfg.reportMode = "once"
    /\ gateLog["error"]["x1"] = <<TRUE>>
    /\ gateLog["event"]["x1"] = <<TRUE>>
    /\ disp[1].task[Document].ext["x1"].gate = "error"
    /\ "x1" \in reportedErrors \cap reportedEvents

\* The failures of dispatch d are all repeats whose telemetry report the
\* error gate suppressed.
OnlySuppressedRepeats(d) ==
    /\ flattenedErrors(d) # {}
    /\ \A f \in flattenedErrors(d) :
          /\ f[2] \in Exts
          /\ disp[d].task[f[1]].ext[f[2]].gate = "error"
          /\ ~disp[d].task[f[1]].ext[f[2]].allowed

\* C27: under reportMode=once a dispatch whose only failures are repeated
\* failures of automations whose error was reported before (the gate
\* suppresses their telemetry report) shows no notification.
C27_SuppressedRepeatIsSilent ==
    \A d \in Calls :
       (cfg.reportMode = "once" /\ disp[d].pc = "done" /\ OnlySuppressedRepeats(d))
          => disp[d].notifyCalls = 0

\* The automations of a firing whose run has failed: runExtension rejected
\* (the service bindings) or the pipeline failed inside it.
FailedIn(t) ==
    {x \in t.toRun : t.ext[x].promise = "rejected" \/ t.ext[x].pipeline = "failed"}

\* C31: within one firing a failure of one automation (in resolving its
\* service bindings or in its pipeline) never keeps a sibling automation of
\* the firing from being started and run to completion: every eligible
\* automation is started with the read context, one that has not settled can
\* still settle whatever its siblings did, an automation's failure never
\* rejects the firing, and the firing's result is there only when every
\* automation of the firing has settled.
C31_SiblingFailureIsIsolated ==
    \A d \in Dispatched : \A r \in disp[d].roots :
        LET t == disp[d].task[r]
        IN  /\ t.pc \in {"run", "fulfilled"} =>
                  \A x \in t.toRun : t.ext[x].pc \in {"svc", "done"}
            /\ t.pc = "run" =>
                  \A x \in t.toRun :
                      t.ext[x].pc = "svc" =>
                          ENABLED runExtensionSettles(d, r, x, "ok", "ok")
            /\ t.pc = "fulfilled" =>
                  \A x \in t.toRun : t.ext[x].pc = "done"
            /\ t.pc = "rejected" => FailedIn(t) = {}

\* In one firing the service bindings of x1 did not resolve while x2's
\* pipeline ran to its end, and the firing's result has been collected.
C31_Witness ==
    \E d \in Dispatched : \E r \in disp[d].roots :
        LET t == disp[d].task[r]
        IN  /\ t.pc = "fulfilled"
            /\ t.toRun = Exts
            /\ t.ext["x1"].promise = "rejected"
            /\ t.ext["x1"].pipeline = "notrun"
            /\ t.ext["x2"].pc = "done"
            /\ t.ext["x2"].pipeline = "ok"

\* The automations of dispatch d still in flight, as <<root, automation>>.
InFlight(d) ==
    {f \in disp[d].roots \X Exts : disp[d].task[f[1]].ext[f[2]].pc = "svc"}

\* C32: in every dispatch the notify step comes after the firing of every
\* root of the dispatch has settled (fulfilled or rejected): a dispatch that
\* has notified, or has passed the notify step with nothing to show, has no
\* firing that waits for its reader and no automation in flight.
C32_NotifyAfterAllSettled ==
    \A d \in Calls :
        (disp[d].pc = "done" \/ disp[d].notifyCalls > 0) =>
            /\ \A r \in disp[d].roots :
                  disp[d].task[r].pc \in {"fulfilled", "rejected"}
            /\ InFlight(d) = {}

\* A dispatch over two roots has notified of the one failure of e1's firing,
\* after e2's firing ran both automations without a failure.
C32_Witness ==
    \E d \in Calls :
        /\ disp[d].roots = Elems
        /\ disp[d].notifyCalls = 1
        /\ disp[d].notifyCount = 1
        /\ disp[d].task["e1"].pc = "fulfilled"
        /\ disp[d].task["e1"].ext["x2"].returned = "error"
        /\ disp[d].task["e2"].pc = "fulfilled"
        /\ \A x \in Exts : disp[d].task["e2"].ext[x].returned = "undefined"

\* The automations eligible for a firing of dispatch d: the instance's
\* automations the eligibility predicate of the call admits.
Eligible(d) == extensions \cap disp[d].shouldRunExtension

\* The firings that are past the await of the reader.
PastReader(t) == t.pc \in {"run", "fulfilled", "rejected"}

\* C33: for each root of a dispatch the context reader is read exactly once
\* when at least one automation is eligible, whatever their number, and all
\* of them receive that same read context; it is read zero times when no
\* automation is eligible.
C33_ReaderReadOncePerRoot ==
    \A d \in Dispatched : \A r \in disp[d].roots :
        LET t == disp[d].task[r]
        IN  /\ Eligible(d) = {} => t.reads = 0
            /\ (Eligible(d) # {} /\ PastReader(t)) => t.reads = 1
            /\ t.reads <= 1
            /\ \A x \in Exts : t.ext[x].pc # "none" => t.ext[x].input = t.ctx

\* What holds of _runTrigger: the same, for the automations _runTrigger's own
\* filter admits, which is every automation of the instance.
C33_ReadOncePerFiring ==
    \A d \in Dispatched : \A r \in disp[d].roots :
        LET t == disp[d].task[r]
        IN  /\ extensions = {} => t.reads = 0
            /\ (extensions # {} /\ PastReader(t)) => t.reads = 1
            /\ t.reads <= 1
            /\ \A x \in Exts : t.ext[x].pc # "none" => t.ext[x].input = t.ctx
            /\ \A x \in extensions :
                  t.pc \in {"run", "fulfilled"} => t.ext[x].pc # "none"

\* ====================================== claims, Spec and IntervalSpec

\* The nodes on the path of a native event on `node` that carry a binding.
BoundOnPath(node) ==
    {n \in {node} \cup Ancestors(node) : listeners[n] >= 1}

\* The nodes a run() of a listener kind binds: the document for the document
\* kinds, else its root, and in watch mode the elements the watcher's
\* callback is called for.
BoundByRun ==
    IF trigger \in {"selectionchange", "statechange"} \/ ~cfg.selector
    THEN {Document} ELSE Matching

\* A run() whose root wait resolved completes step s without throwing.
RunCompletes(s) ==
    /\ runs[s].pc = "await"
    /\ runs[s].promise = "resolved"
    /\ runs'[s].pc = "none"
    /\ ~last'.threw

\* C2 as stated: each (native event name, node) pair carries at most one
\* binding of the instance's handler, and one native event fires the
\* automations at most once.
C2_OneFiringPerNativeEvent ==
    /\ \A n \in Nodes : listeners[n] <= 1
    /\ trigger \in ListenerKinds => Len(last.fired) <= 1

\* C2, amended: after any sequence of run() calls and watch-mode mutation
\* callbacks each (native event name, node) pair carries at most one binding
\* of the instance's handler; one native event calls the handler once for
\* each node on its path (target and ancestors) that carries the binding, so
\* it fires once when no bound element is inside another bound element; and a
\* run() that completes leaves exactly one binding on each node it binds and
\* the other nodes as they were, so that running twice in succession leaves
\* the listener set of running once.
C2_ListenerUniqueness ==
    [][/\ \A n \in Nodes : listeners'[n] <= 1
       /\ (trigger \in ListenerKinds /\ last'.fired # <<>>) =>
             \E node \in Nodes :
                /\ \A i \in 1..Len(last'.fired) : last'.fired[i] = {node}
                /\ Len(last'.fired) = Cardinality(BoundOnPath(node))
       /\ \A s \in 1..MaxRuns :
             (trigger \in ListenerKinds /\ RunCompletes(s)) =>
                listeners' = [n \in Nodes |->
                                IF n \in BoundByRun THEN 1 ELSE listeners[n]]
      ]_vars

\* A click on e2, which is inside e1, both bound once by a watching instance:
\* the handler ran once for each.
C2_Witness ==
    /\ trigger = "click"
    /\ cfg.attachMode = "watch"
    /\ mutObs # {}
    /\ listeners["e1"] = 1
    /\ listeners["e2"] = 1
    /\ last.fired = <<{"e2"}, {"e2"}>>

\* A click trigger with a selector, watching for new elements.
WatchedClick ==
    /\ trigger = "click"
    /\ cfg.selector
    /\ cfg.attachMode = "watch"

\* The page inserts element e while a watcher of the instance is connected.
InsertedUnderWatch(e) ==
    /\ mutObs # {}
    /\ dom[e] = "absent"
    /\ dom'[e] = "matching"

\* The new element e carries one binding, the other nodes what they had.
BoundAlone(e) ==
    listeners' = [n \in Nodes |-> IF n = e THEN 1 ELSE listeners[n]]

\* C16 as stated: for a click trigger with a selector in watch mode a click
\* on a bound element, bound at arm time or by the watcher afterwards, makes
\* exactly one firing; the watcher binds an element inserted later, and adds
\* no second listener to the elements bound before.
C16_OneFiringPerClick ==
    [][WatchedClick =>
         /\ \A e \in Elems : InsertedUnderWatch(e) => BoundAlone(e)
         /\ \A node \in Elems :
               (NativeEvent(node) /\ listeners[node] = 1) =>
                   last'.fired = <<{node}>>
      ]_vars

\* C16, amended: for a click trigger with a selector in watch mode a run()
\* that completes leaves a watcher connected and one binding on each matching
\* element; the watcher binds an element inserted later exactly once and
\* leaves the bindings of the other nodes as they were; and a click on a
\* bound element fires once for each bound element on its path (the element
\* and the bound elements it lies inside), so exactly once when it lies
\* inside no other bound element.
C16_WatchBindsNewElementOnce ==
    [][WatchedClick =>
         /\ \A s \in 1..MaxRuns :
               RunCompletes(s) =>
                  /\ mutObs' # {}
                  /\ \A e \in Matching : listeners'[e] = 1
         /\ \A e \in Elems : InsertedUnderWatch(e) => BoundAlone(e)
         /\ \A node \in Elems :
               (NativeEvent(node) /\ listeners[node] = 1) =>
                  /\ last'.fired =
                        [i \in 1..Cardinality(BoundOnPath(node)) |-> {node}]
                  /\ BoundOnPath(node) = {node} => last'.fired = <<{node}>>
      ]_vars

\* A watching click instance with e1 and e2 bound once each and the document
\* not bound: a click on e1, which lies inside no bound element, fired once.
C16_Witness ==
    /\ WatchedClick
    /\ mutObs # {}
    /\ listeners = [n \in Nodes |-> IF n = Document THEN 0 ELSE 1]
    /\ dom["e2"] = "matching"
    /\ last.fired = <<{"e1"}>>

\* An element-scoped event kind with a selector, watching for new elements.
WatchedElementKind ==
    /\ trigger \in {"click", "custom"}
    /\ domTrigger # Null
    /\ cfg.selector
    /\ cfg.attachMode = "watch"

\* C36: for every element-scoped event kind, including custom with a
\* selector, attachMode=watch makes run() observe the subtree, so that an
\* element matching the selector that is inserted after arming gets the
\* handler bound and fires on its native event.
C36_WatchForEveryElementKind ==
    [][WatchedElementKind =>
         /\ \A s \in 1..MaxRuns :
               RunCompletes(s) =>
                  /\ mutObs' # {}
                  /\ \A e \in Matching : listeners'[e] >= 1
         /\ \A e \in Elems : InsertedUnderWatch(e) => listeners'[e] >= 1
         /\ \A node \in Elems :
               (NativeEvent(node) /\ listeners[node] >= 1) =>
                  /\ last'.fired # <<>>
                  /\ \A i \in 1..Len(last'.fired) : last'.fired[i] = {node}
      ]_vars

\* A custom instance in watch mode that run() armed while e1 matched: the
\* page has inserted e2 since, no watcher is connected and e2 is not bound.
C36_CustomNotWatched ==
    /\ WatchedElementKind
    /\ trigger = "custom"
    /\ \A s \in 1..MaxRuns : runs[s].pc = "none"
    /\ listeners["e1"] = 1
    /\ dom["e2"] = "matching"
    /\ listeners["e2"] = 0
    /\ mutObs = {}

\* An Interval Runner that can still dispatch: one whose signal is not
\* aborted, or an aborted one past the loop test of its tick.
CanStillFire(r) ==
    /\ runners[r].pc # "none"
    /\ \/ ~runners[r].aborted
       \/ runners[r].pc = "raf"
       \/ runners[r].pc = "root" /\ runners[r].promise # "cancelled"

\* Nothing of the instance is left on the page.
TornDown ==
    /\ \A n \in Nodes : listeners[n] = 0
    /\ mutObs = {}
    /\ intObs = {}
    /\ \A r \in 1..MaxRunners : ~CanStillFire(r)

\* C3: uninstall() leaves zero bindings of the instance's handler on the
\* document and on every element, zero connected mutation and intersection
\* observers and no Interval Runner that can still fire, for every trigger
\* kind, attach mode and selector configuration and any DOM change before it.
C3_UninstallTearsDown == [][Uninstall => TornDown']_vars

\* C4: after any interleaving of run() calls at most one generation is live:
\* at most one Interval Runner that can still fire, at most one connected
\* mutation observer and at most one connected intersection observer.
C4_OneLiveGeneration ==
    /\ Cardinality({r \in 1..MaxRunners : CanStillFire(r)}) <= 1
    /\ Cardinality(mutObs) <= 1
    /\ Cardinality(intObs) <= 1

\* C5: a run() whose root wait was cancelled by a newer run() or by
\* uninstall() is discarded: when it resumes it binds no listener, connects
\* no observer, starts no Interval Runner, fires nothing, and leaves the
\* instance's state (cancel handlers, installed event names) as it was.
C5_CancelledRunIsDiscarded ==
    [][\A s \in 1..MaxRuns :
          (runs[s].pc = "await" /\ runs[s].promise = "cancelled"
              /\ runs'[s].pc = "none")
          => /\ listeners' = listeners
             /\ mutObs' = mutObs
             /\ intObs' = intObs
             /\ runners' = runners
             /\ handlers' = handlers
             /\ installedEvents' = installedEvents
             /\ last'.fired = <<>>
      ]_vars

\* C6: an Interval Runner whose signal has been aborted, at whichever
\* suspension point, starts no further effect, dispatches nothing and
\* registers no cancel handler when it resumes.
C6_AbortedRunnerStops ==
    [][\A r \in 1..MaxRunners :
          (runners[r].aborted /\ runners'[r].pc # runners[r].pc)
          => /\ runners'[r].pc # "root"
             /\ last'.fired = <<>>
             /\ handlers' = handlers
      ]_vars

\* The ids of the callbacks of one kind registered on the current signal.
HandlerIds(kind) == {h.id : h \in {g \in handlers : g.kind = kind}}

\* Every callback registered on the signal has run in this step: the pending
\* root waits are cancelled, the observers disconnected, the document's
\* binding removed.
CallbacksRan ==
    /\ \A i \in HandlerIds("cancelRunWait") :
          runs[i].promise = "pending" => runs'[i].promise = "cancelled"
    /\ \A o \in mutObs' : o.id \notin HandlerIds("disconnectMutation")
    /\ \A o \in intObs' : o.id \notin HandlerIds("disconnectIntersection")
    /\ HandlerIds("documentOff") # {} => listeners'[Document] = 0

\* No callback registered on the current signal has run: what it is to cancel
\* or to disconnect is still there.
CallbacksNotRun ==
    /\ \A i \in HandlerIds("cancelRunWait") : runs[i].promise # "cancelled"
    /\ \A i \in HandlerIds("disconnectMutation") : \E o \in mutObs : o.id = i
    /\ \A i \in HandlerIds("disconnectIntersection") : \E o \in intObs : o.id = i
    /\ HandlerIds("documentOff") # {} => listeners[Document] = 1

\* C21: cancelObservers() runs every callback registered on the current
\* signal and leaves a fresh signal: uninstall() leaves no callback
\* registered, and run(), which registers the cancel of its root wait after
\* cancelObservers(), leaves only that one, which has not run. A callback on
\* the current signal has not run (it runs at the next cancelObservers()),
\* and the callbacks that ran are registered no more, so no later
\* cancelObservers() runs them again.
C21_CancelRunsEachCallbackOnce ==
    [][/\ (Run \/ Uninstall) => CallbacksRan
       /\ Uninstall => handlers' = {}
       /\ Run => /\ Cardinality(handlers') = 1
                 /\ \A s \in 1..MaxRuns :
                       (runs[s].pc = "none" /\ runs'[s].pc = "await") =>
                          /\ runs'[s].promise # "cancelled"
                          /\ handlers' \in {{Handler("cancelRunWait", s)},
                                            {Handler("noop", 0)}}
       /\ CallbacksNotRun'
      ]_vars

\* A document kind was bound, and a cancelObservers() has run the callback
\* that removes the document's binding; no callback is registered.
C21_Witness ==
    /\ trigger \in {"selectionchange", "statechange"}
    /\ installedEvents # {}
    /\ listeners[Document] = 0
    /\ handlers = {}

\* The kinds whose case of run() calls assertElement: appear, and the native
\* DOM event kinds of the default case (click stands for them).
ElementKinds == {"appear", "click"}

\* C22: for kind appear and for the native DOM event kinds other than custom,
\* statechange and selectionchange, a run() with no selector, whose root is
\* the document, throws; when it throws it has bound no listener, connected
\* no observer, registered no callback and fired nothing.
C22_DocumentRootRejected ==
    [][\A s \in 1..MaxRuns :
          (trigger \in ElementKinds /\ ~cfg.selector
              /\ runs[s].pc = "await" /\ runs'[s].pc = "none")
          => /\ last'.threw
             /\ last'.fired = <<>>
             /\ listeners' = listeners
             /\ installedEvents' = installedEvents
             /\ mutObs' = mutObs
             /\ intObs' = intObs
             /\ handlers' = handlers
      ]_vars

\* A run() of a click trigger with no selector has thrown, and nothing is
\* bound.
C22_Witness ==
    /\ trigger = "click"
    /\ ~cfg.selector
    /\ last.threw
    /\ \A s \in 1..MaxRuns : runs[s].pc = "none"
    /\ \A n \in Nodes : listeners[n] = 0
    /\ installedEvents = {}

\* The native event names for which boundEventHandler is bound on some node.
BoundEventNames ==
    IF \E n \in Nodes : listeners[n] >= 1 THEN {domTrigger} ELSE {}

\* C28: in every state installedEvents is exactly the set of native event
\* names for which the instance's handler is bound on at least one node; it is
\* empty after uninstall(), also for the document kinds and when no element
\* matches the selector.
C28_InstalledEventsAreBound == installedEvents = BoundEventNames

\* C37: each interval tick resolves the root set anew at tick time and
\* dispatches exactly the elements matching the selector at that moment (the
\* document when there is no selector): an element removed before the tick
\* is not in the tick's roots and an element added before the tick is.  A
\* tick whose wait for the selector was cancelled dispatches nothing.
C37_TickResolvesRootsAnew ==
    [][\A r \in 1..MaxRunners :
          IntervalRoot(r) =>
             IF runners[r].promise = "cancelled" THEN last'.fired = <<>>
             ELSE /\ Len(last'.fired) = 1
                  /\ last'.fired[1] =
                        (IF cfg.selector
                         THEN {e \in Elems : dom'[e] = "matching"}
                         ELSE {Document})
      ]_vars

\* A tick dispatched e2 alone: e1, which matched before, had been changed to
\* match no more, and e2 had been inserted.
C37_Witness ==
    /\ trigger = "interval"
    /\ dom["e1"] = "gone"
    /\ dom["e2"] = "matching"
    /\ last.fired = <<{"e2"}>>

\* The cleanup callbacks on the signal that cancel a selector wait of
\* Interval Runner r.
RunnerWaitCallbacks(r) ==
    {h \in handlers : h.kind = "cancelRunnerWait" /\ h.id = r}

\* C39: within one generation the number of cleanup callbacks registered on
\* the cancellation signal does not grow with the interval ticks that have
\* run: the root resolution of an interval tick with a selector leaves no
\* additional callback registered once the tick has completed, so a runner
\* that is not inside getRoot has no wait callback on the signal.
C39_TickLeavesNoCallback ==
    \A r \in 1..MaxRunners :
        runners[r].pc # "root" => RunnerWaitCallbacks(r) = {}

\* What holds: a tick that finds the selector matching, or has no selector,
\* registers only the shared noop, which the signal keeps once.
C39_NoWaitNoCallback ==
    [][\A r \in 1..MaxRunners :
          ((IntervalWake(r) \/ IntervalFrame(r)) /\ getRootPromise = "resolved")
             => handlers' \subseteq handlers \cup {Handler("noop", 0)}
      ]_vars

\* C40: for trigger kind interval with intervalMillis <= 0 (the value used
\* when none is configured), run() still cancels the previous generation's
\* observers (here the pending selector waits, and every callback on the
\* signal when it resumes) but starts no Interval Runner, so no firing ever
\* results from that arm cycle, and run() completes without error.
C40_NoRunnerWithoutPeriod ==
    [][(trigger = "interval" /\ cfg.intervalMillis <= 0) =>
          /\ \A r \in 1..MaxRunners : runners'[r] = NoRunner
          /\ last'.fired = <<>>
          /\ ~last'.threw
          /\ Run => \A s \in 1..MaxRuns :
                       runs[s].promise = "pending" => runs'[s].promise = "cancelled"
          /\ \A s \in 1..MaxRuns :
                RunResume(s) => (runs'[s] = NoRun /\ handlers' = {})
      ]_vars

\* An interval instance with no period was armed twice in a row: the first
\* run() has completed, having started no runner, and the second one's wait
\* for the selector is cancelled.
C40_Witness ==
    /\ trigger = "interval"
    /\ cfg.intervalMillis = 0
    /\ runs[1] = NoRun
    /\ runs[2] = [pc |-> "await", promise |-> "cancelled"]
    /\ \A r \in 1..MaxRunners : runners[r] = NoRunner

\* ============================================= claims, IntervalFairSpec

\* An aborted Interval Runner waiting, inside its effect, for a root element
\* that is not on the page.
WaitsForRoot(r) ==
    /\ runners[r].aborted
    /\ runners[r].pc = "root"
    /\ runners[r].promise = "pending"

\* C19: the Interval Runner leaves its loop only when its signal is aborted,
\* never by an exception; and once the signal is aborted the runner
\* eventually terminates, sleeps and frame callbacks being delivered.
C19_TerminatesWhenAborted ==
    /\ [][\A r \in 1..MaxRunners :
             (runners[r].pc # "none" /\ runners'[r].pc = "none")
                => (runners[r].aborted /\ ~last'.threw)]_vars
    /\ \A r \in 1..MaxRunners :
          runners[r].aborted ~> (runners[r].pc = "none")

\* What is left of C19 in the code: an aborted runner terminates or ends up
\* waiting for a root element.
C19_TerminatesOrWaits ==
    /\ [][\A r \in 1..MaxRunners :
             (runners[r].pc # "none" /\ runners'[r].pc = "none")
                => (runners[r].aborted /\ ~last'.threw)]_vars
    /\ \A r \in 1..MaxRunners :
          runners[r].aborted ~> (runners[r].pc = "none" \/ WaitsForRoot(r))

\* =================================================== claims, ScheduleSpec

\* The iterations of interval() whose effect has settled.
SettledTicks == {i \in 1..Len(iv.ticks) : iv.ticks[i].end # -1}

\* C17: interval() runs its effect no earlier than one full period after it
\* was called; and when its signal is aborted during that first period (before
\* any iteration began) it runs no effect at all.
C17_NoLeadingFire ==
    /\ \A i \in 1..Len(iv.ticks) :
          /\ iv.ticks[i].start >= iv.called + iv.intervalMillis
          /\ iv.ticks[i].effect # -1 =>
                iv.ticks[i].effect >= iv.called + iv.intervalMillis
    /\ (iv.aborted /\ iv.abortedAt = 0) => iv.ticks = <<>>
    /\ iv.pc = "sleep" /\ iv.ticks = <<>> =>
          iv.wake = iv.called + iv.intervalMillis

\* interval() was called after the clock had started and ran its first effect
\* exactly one period later.
C17_Witness ==
    /\ iv.called > 0
    /\ iv.ticks # <<>>
    /\ iv.ticks[1].effect = iv.called + iv.intervalMillis

\* The effect of the iteration in progress has just been rejected.
EffectRejected ==
    /\ iv.pc = "effect"
    /\ iv'.ticks[Len(iv.ticks)].outcome = "rejected"

\* The sleep after a rejected effect ends.
WakesAfterRejection ==
    /\ iv.pc = "sleep"
    /\ iv'.pc # "sleep"
    /\ iv.ticks # <<>>
    /\ iv.ticks[Len(iv.ticks)].outcome = "rejected"

\* C18: a rejection of the effect on any tick does not leave interval(): the
\* runner does not throw and goes on with its loop, sleeping the rest of the
\* period or starting the next iteration, and stops only if the signal is
\* aborted; when the sleep ends with the signal not aborted the effect is
\* started again.
C18_EffectFailureSwallowed ==
    [][/\ EffectRejected =>
             /\ ~iv'.threw
             /\ iv'.pc = "done" => iv.aborted
             /\ iv'.pc = "sleep" =>
                   iv'.wake = iv.ticks[Len(iv.ticks)].start + iv.intervalMillis
             /\ iv'.pc \in {"raf", "effect"} =>
                   Len(iv'.ticks) = Len(iv.ticks) + 1
       /\ (WakesAfterRejection /\ ~iv.aborted) =>
             /\ iv'.pc \in {"raf", "effect"}
             /\ Len(iv'.ticks) = Len(iv.ticks) + 1
      ]_vars

\* The effect was rejected on the first tick and has been called again on
\* the second, the signal not aborted.
C18_Witness ==
    /\ ~iv.aborted
    /\ ~iv.threw
    /\ Len(iv.ticks) = 2
    /\ iv.ticks[1].outcome = "rejected"
    /\ iv.ticks[2].effect # -1

\* C20: after each effect the runner sleeps max(0, period - elapsed), elapsed
\* counted from the start of the iteration: never a negative time; when the
\* effect took the period or longer the next iteration starts at the time the
\* effect settled, and when it took less the next iteration starts one
\* period after this one started.
C20_SleepsRestOfPeriod ==
    \A i \in SettledTicks :
       LET t == iv.ticks[i]
           P == iv.intervalMillis
           elapsed == t.end - t.start
       IN  /\ t.slept >= 0
           /\ elapsed >= P => t.slept = 0
           /\ elapsed < P => t.slept = P - elapsed
           /\ i < Len(iv.ticks) =>
                 iv.ticks[i + 1].start = IF elapsed >= P THEN t.end
                                         ELSE t.start + P
           /\ (i = Len(iv.ticks) /\ iv.pc = "sleep") =>
                 (elapsed < P /\ iv.wake = t.start + P)

\* An effect took longer than the period and the next iteration started at
\* the time it settled.
C20_Witness ==
    /\ Len(iv.ticks) = 2
    /\ iv.ticks[1].end - iv.ticks[1].start > iv.intervalMillis
    /\ iv.ticks[1].slept = 0
    /\ iv.ticks[2].start = iv.ticks[1].end

\* =================================================== claims, DebounceSpec

\* The dispatcher is debounced on the trailing edge only.
TrailingOnly ==
    /\ debounceOptions.configured
    /\ ~debounceOptions.leading
    /\ debounceOptions.trailing

\* C14: with a trailing-only debounce of wait W, the calls of a burst (calls
\* less than W apart from the first to the last) lead to exactly one call of
\* the firing pipeline: none happens between two of them, the one that serves
\* them happens W or more after the last call it serves, at the latest when
\* the timer is gone, and it is made with the roots and options of the last
\* call it serves.
C14_BurstFiresOnceWithLastArgs ==
    TrailingOnly =>
        /\ \A k \in 1..Len(deb.invoked) :
              LET upto == deb.invoked[k].upto
              IN  /\ upto >= 1
                  /\ k > 1 => upto > deb.invoked[k - 1].upto
                  /\ deb.invoked[k].t >= deb.calls[upto].t + debounceOptions.waitMillis
                  /\ disp[k].pc # "none"
                  /\ disp[k].roots = deb.calls[upto].args.roots
                  /\ disp[k].nativeEvent = deb.calls[upto].args.options.nativeEvent
                  /\ disp[k].shouldRunExtension =
                        deb.calls[upto].args.options.shouldRunExtension
        /\ Cardinality(Dispatched) = Len(deb.invoked)
        /\ \A i \in 1..Len(deb.calls) : \A j \in (i + 1)..Len(deb.calls) :
              deb.calls[j].t - deb.calls[i].t < debounceOptions.waitMillis =>
                 \A k \in 1..Len(deb.invoked) :
                    ~(i <= deb.invoked[k].upto /\ deb.invoked[k].upto < j)
        /\ (deb.timerId = -1 /\ deb.calls # <<>>) =>
              /\ deb.invoked # <<>>
              /\ deb.invoked[Len(deb.invoked)].upto = Len(deb.calls)

\* A burst of three calls within one wait window, the first and the last with
\* different roots, has been served by its one firing.
C14_Witness ==
    /\ TrailingOnly
    /\ Len(deb.calls) = 3
    /\ deb.calls[3].t - deb.calls[1].t < debounceOptions.waitMillis
    /\ deb.calls[1].args.roots # deb.calls[3].args.roots
    /\ deb.timerId = -1
    /\ Len(deb.invoked) = 1
    /\ disp[1].roots = deb.calls[3].args.roots

\* ======================================================= claims, LoadSpec

\* C15: for a load trigger with no selector and no debounce each run() makes
\* exactly one firing, with the document as its single root, and does not
\* throw; with zero automations configured that firing reads no context,
\* runs no pipeline, is fulfilled at once and its dispatch ends with no
\* notification.
C15_LoadFiresOnceOnDocument ==
    [][~cfg.selector =>
         /\ \A s \in 1..MaxRuns :
               (runs[s].pc = "await" /\ runs'[s].pc = "none") =>
                  /\ last'.fired = <<{Document}>>
                  /\ ~last'.threw
                  /\ Cardinality({d \in Calls : disp'[d].pc # "none"})
                        = Cardinality(Dispatched) + 1
         /\ \A d \in Calls :
               disp'[d].pc # "none" =>
                  /\ disp'[d].roots = {Document}
                  /\ extensions = {} =>
                        /\ disp'[d].task[Document] =
                              [NoRootTask EXCEPT !.pc = "fulfilled"]
                        /\ disp'[d].notifyCalls = 0
      ]_vars

\* Two run() calls of a load trigger with no selector and no automations
\* have each made their firing on the document, and both dispatches have
\* ended without a notification.
C15_Witness ==
    /\ ~cfg.selector
    /\ extensions = {}
    /\ \A s \in 1..MaxRuns : runs[s].pc = "none"
    /\ \A d \in 1..2 :
          /\ disp[d].pc = "done"
          /\ disp[d].roots = {Document}
          /\ disp[d].task[Document].reads = 0
          /\ disp[d].notifyCalls = 0

\* ================================================= claims, UnresolvedSpec

\* No kind resolves to a native event name: the definition has no trigger, or
\* it has kind custom and no custom event name.
NoKindResolved ==
    \/ cfg.trigger = Null
    \/ cfg.trigger = "custom" /\ ~cfg.customEvent

\* C23: when no kind resolves to a native event name, run() throws a
\* configuration error: it binds no listener, adds nothing to the installed
\* event names and fires no automation.
C23_UnresolvedKindFails ==
    [][\A s \in 1..MaxRuns :
          (NoKindResolved /\ runs[s].pc = "await" /\ runs'[s].pc = "none")
          => /\ last'.threw
             /\ last'.fired = <<>>
             /\ listeners' = listeners
             /\ installedEvents' = installedEvents
      ]_vars

\* What holds of C23 in the code: the case of kind custom with no custom
\* event name.
C23_CustomWithoutEventFails ==
    [][\A s \in 1..MaxRuns :
          (cfg.trigger = "custom" /\ ~cfg.customEvent
              /\ runs[s].pc = "await" /\ runs'[s].pc = "none")
          => /\ last'.threw
             /\ last'.fired = <<>>
             /\ listeners' = listeners
             /\ installedEvents' = installedEvents
      ]_vars

\* ==================================================== claims, InstallSpec

\* C24: over any sequence of install() calls and dispatcher calls the
\* instance has one Debounced Dispatcher, whose pending-timer state every
\* call shares: no second function with a pending timer of its own exists.
C24_OneDispatcher == deb.replaced = <<>>

\* ====================================================== claims, ReArmSpec

\* The reported-id set of a gate.
Reported(kind) == IF kind = "error" THEN reportedErrors ELSE reportedEvents

\* The number of calls at which a gate answered true.
Reports(answers) == Cardinality({i \in 1..Len(answers) : answers[i]})

\* C26: reportedEvents and reportedErrors only grow: no run(), uninstall(),
\* removeExtensions() or cancelObservers() inside them removes an id; every
\* gate call records the id, in both report modes; so under reportMode=once
\* an automation reported before a re-arm is not reported again after it.
C26_ReportedSetsOnlyGrow ==
    [][/\ reportedEvents \subseteq reportedEvents'
       /\ reportedErrors \subseteq reportedErrors'
       /\ \A kind \in {"error", "event"}, x \in Exts :
             /\ gateLog'[kind][x] # gateLog[kind][x] => x \in Reported(kind)'
             /\ gateLog'[kind][x] # <<>> => x \in Reported(kind)'
             /\ cfg.reportMode = "once" => Reports(gateLog'[kind][x]) <= 1
      ]_vars

\* Under reportMode=once x1's success was reported at the firing of the first
\* run(); the instance was uninstalled and re-armed, and at the firing of the
\* second run() the gate recorded it again and did not report it.
C26_Witness ==
    /\ cfg.reportMode = "once"
    /\ gateLog["event"]["x1"] = <<TRUE, FALSE>>
    /\ reportedEvents = {"x1"}
    /\ disp[2].pc = "done"
    /\ \A s \in 1..MaxRuns : runs[s].pc = "none"

\* ===================================================== claims, EngineSpec

\* C29: removeExtensions() changes nothing of the engine: the bound
\* listeners, the observers, the Interval Runners, the callbacks registered on
\* the current signal (the signal is not replaced), the installed event names
\* and the reported-id sets are as before, and nothing fires.
C29_RemoveExtensionsIsNoOp ==
    [][RemoveExtensions =>
          /\ UNCHANGED <<listeners, mutObs, intObs, runners, runs, handlers,
                         installedEvents, reportedEvents, reportedErrors>>
          /\ last'.fired = <<>>
          /\ ~last'.threw
      ]_vars

\* An instance with a listener bound, a watcher connected and a callback
\* registered, whose latest step fired nothing and did not throw, as a
\* removeExtensions() does.
C29_Witness ==
    /\ last = Idle
    /\ trigger = "click"
    /\ listeners["e1"] = 1
    /\ mutObs # {}
    /\ handlers # {}
    /\ installedEvents = {"click"}

\* ================================================= claims, ReportModeSpec

\* The kinds that convey user intent.
UserIntentKinds == {"click", "dblclick", "blur", "mouseover"}

\* The report mode C30 states for the definition.
StatedReportMode ==
    IF cfg.reportMode # Null THEN cfg.reportMode
    ELSE IF cfg.trigger # Null /\ cfg.trigger \in UserIntentKinds THEN "all"
    ELSE "once"

\* C30: with no reportMode configured the effective mode is `all` for kinds
\* click, dblclick, blur and mouseover and `once` for every other kind, load
\* (also when no kind is configured) included; a configured reportMode
\* overrides the default. The gates answer accordingly: always true under
\* `all`, true at the first call only under `once`.
C30_DefaultReportMode ==
    /\ reportMode = StatedReportMode
    /\ \A kind \in {"error", "event"}, x \in Exts :
          \A i \in 1..Len(gateLog[kind][x]) :
             gateLog[kind][x][i] = (StatedReportMode = "all" \/ i = 1)

\* A keydown trigger with no reportMode configured: the second failure of x1
\* was not reported.
C30_Witness ==
    /\ cfg.trigger = "keydown"
    /\ cfg.reportMode = Null
    /\ gateLog["error"]["x1"] = <<TRUE, FALSE>>

\* ================================================= claims, InitializeSpec

\* The calls of _runTriggersAndNotify that had e among their roots: the
\* firings with e as root.
Firings(e) ==
    {i \in 1..Len(deb.invoked) :
        e \in deb.calls[deb.invoked[i].upto].args.roots}

\* run() has attached the initialize trigger and the dispatcher has no
\* timer pending.
InitializeSettled ==
    /\ \A s \in 1..MaxRuns : runs[s].pc = "none"
    /\ deb.calls # <<>> \/ mutObs # {}
    /\ deb.timerId = -1

\* The elements due a firing: in watch mode every element on the page, else
\* the elements run() found.
InitializeDue ==
    IF cfg.attachMode = "watch" THEN Matching
    ELSE IF deb.calls = <<>> THEN {}
    ELSE deb.calls[1].args.roots \cap Elems

\* C34: for trigger kind initialize, every element matching the selector gets
\* exactly one firing with itself as root: elements present at arm time
\* once, and in watch mode each element inserted later exactly once, also
\* when several elements appear within one debounce window.
C34_InitializeFiresOncePerElement ==
    /\ \A e \in Elems : Cardinality(Firings(e)) <= 1
    /\ InitializeSettled =>
          \A e \in InitializeDue : Cardinality(Firings(e)) = 1

\* What holds: the same in an instance with no debounce configured, and in
\* any instance at most one firing per element.
C34_OncePerElementUndebounced ==
    /\ \A e \in Elems : Cardinality(Firings(e)) <= 1
    /\ (InitializeSettled /\ install = "boundRun") =>
          \A e \in InitializeDue : Cardinality(Firings(e)) = 1

\* A trailing-edge debounce in watch mode: two elements appeared within one
\* wait, the timer has fired, and only the later element got a firing.
C34_LostFiring ==
    /\ cfg.attachMode = "watch"
    /\ debounceOptions.trailing /\ ~debounceOptions.leading
    /\ InitializeSettled
    /\ Matching = Elems
    /\ Firings("e1") = {}
    /\ Cardinality(Firings("e2")) = 1

\* ===================================================== claims, AppearSpec

\* C35: for trigger kind appear, within one arm cycle an observed element
\* causes a firing when it first becomes visible and not again: an element
\* that leaves the viewport and re-enters it does not fire a second time,
\* and an observer callback with no intersecting entry runs no automation
\* (the roots of a callback's dispatch are intersecting entries).
C35_AppearFiresOnFirstVisibilityOnly ==
    /\ \A o \in intObs : \A e \in Elems : o.appeared[e] <= 1
    /\ \A i \in 1..Len(last.fired) : \A r \in last.fired[i] :
          \E o \in intObs : r \in o.intersecting

\* What holds: the roots of a callback's dispatch are the entries that
\* intersect, so a callback with none dispatches an empty root list.
C35_OnlyIntersectingEntriesFire ==
    \A i \in 1..Len(last.fired) : \A r \in last.fired[i] :
        \E o \in intObs : r \in o.intersecting

\* An element came into view, left and came into view again under one
\* observer, which dispatched it both times.
C35_FiredOnReentry ==
    \E o \in intObs :
        /\ o.appeared["e1"] = 2
        /\ "e1" \in o.intersecting
        /\ last.fired = <<{"e1"}>>

\* =================================================== claims, TeardownSpec

\* The debounced dispatcher holds a call whose wait has not ended: its timer
\* will hand the call's roots to _runTriggersAndNotify.
PendingDispatch ==
    /\ deb.timerId # -1
    /\ deb.lastArgs.set
    /\ debounceOptions.trailing

\* C38: after uninstall() (or the cancelObservers() of a re-arm) returns, no
\* firing of the cancelled generation starts: a debounced dispatch whose wait
\* is pending at that moment is cancelled with the observers and timers, so
\* none is pending when the call returns, and the debounce timer starts no
\* firing while a watching instance has no watcher connected.
C38_CancelStopsPendingDispatch ==
    [][/\ (Uninstall \/ Run) => ~PendingDispatch'
       /\ (debouncedTimerExpired /\ cfg.attachMode = "watch" /\ mutObs = {})
             => deb'.invoked = deb.invoked
      ]_vars

\* What holds: uninstall() and the re-arm disconnect the watcher and cancel
\* the pending waits for the selector; the dispatcher is left as it was.
C38_CancelLeavesDispatcher ==
    [][(Uninstall \/ Run) =>
          /\ mutObs' = {}
          /\ \A s \in 1..MaxRuns : runs[s].promise = "pending" =>
                                      runs'[s].promise = "cancelled"
          /\ deb' = deb
      ]_vars

====
